---- MODULE Spec2Model ----
(***************************************************************************)
(* A model of m-lab/uuid-annotator: the buffered event handler and its     *)
(* worker (handler/handler.go), the hot-swappable geo and ASN annotators   *)
(* (geoannotator/ipannotator.go, asnannotator/asn.go), the RouteViews      *)
(* prefix index (routeview) and the direction classifier (annotator).      *)
(*                                                                         *)
(* The specifications share the variables; each one leaves the variables   *)
(* of the other subsystems at their initial values:                        *)
(*   Spec / FairSpec   the event handler and its worker                    *)
(*   SpecReload        Reload of the annotators concurrent with lookups    *)
(*   SpecSearch        ParseRouteView and Index.Search                     *)
(*   SpecDirection     FindDirection                                       *)
(*   SpecAnnotate      Annotate of the geo, the ASN and the site annotator *)
(*   SpecServe         the RPC server's handler                            *)
(*   SpecMain / FairSpecMain   the goroutines of main and their shutdown   *)
(*   SpecSystems       routeview.ParseSystems                              *)
(*   SpecStartup       main constructing the annotators                    *)
(*   SpecNames         ipinfo.Parse                                        *)
(*   SpecParser        routeview.ParseRouteView and its row counters       *)
(*   SpecSlice         the single sorted IPNetSlice of routeview           *)
(*   SpecProvider      rawfile.gcsProvider.Get                             *)
(*   SpecClosed        the event handler with its jobs channel closed      *)
(***************************************************************************)
EXTENDS Integers, Sequences, FiniteSets, TLC

VARIABLES
    \* ---- event handler (handler/handler.go)
    buffersize,        \* capacity of the jobs channel (-eventbuffersize)
    jobs,              \* buffered contents of h.jobs, oldest first
    wpc,               \* position of the worker goroutine
    cur,               \* the job the worker has received, or NoJob
    cancelled,         \* the worker's context is cancelled
    missedJobs,        \* metrics.MissedJobs by label
    annotationErrors,  \* metrics.AnnotationErrors
    annotated,         \* history: the annotators invoked for the last job, and those that failed
    files,             \* the output directory: path -> file contents
    events,            \* history: the events passed to Open, in call order
    enq,               \* history: numbers of the events that entered the channel
    writeLog,          \* history: WriteFile calls of the worker, in order
    missedFor,         \* history: MissedJobs increments made for each event
    \* ---- RouteViews prefix index (routeview)
    family,            \* IP version of the RouteViews file: 4 or 6
    file,              \* the rows of the decompressed RouteViews file
    index,             \* the Index built by ParseRouteView
    routeViewRows,     \* metrics.RouteViewRows by label
    spc,               \* "file", "parsed", "searched" or "panic"
    query,             \* the argument of the last Search
    result,            \* what the last Search returned
    \* ---- direction classifier (annotator.FindDirection)
    localIPs,          \* the local-IP set, in its order
    ID,                \* the SockID of the flow: SrcIP and DstIP as text
    dpc,               \* "input" or "done"
    direction,         \* what FindDirection returned
    \* ---- hot-swappable datasets (geoannotator, asnannotator)
    proc,              \* "starting", "running", or how the process ended
    maxmind,           \* geoannotator.maxmind
    asn4,              \* asnAnnotator.asn4
    asn6,              \* asnAnnotator.asn6
    asnames,           \* asnAnnotator.asnames
    mut,               \* geoannotator.mut
    m,                 \* asnAnnotator.m
    rpc,               \* position of the goroutine that runs New and Reload
    newvals,           \* locals of Reload: newMM, new4, new6, newnames
    fetched,           \* providers whose Get has returned data before
    nextID,            \* identity of the next object allocated
    reloads,           \* ticks of the reload loop so far
    lpc,               \* position of each goroutine that does lookups
    seen,              \* identities of the datasets a running lookup has read
    outcome,           \* history: how each load of the current Reload ended
    before,            \* history: the datasets when the current Reload began
    installed,         \* history: the dataset triples the ASN annotator held
    built4,            \* history: the IPv4 index built from the last data Get
    \* ---- the annotators at work (Annotate, AnnotateIP, ipservice)
    annotations,       \* the annotator.Annotations being filled
    site,              \* siteAnnotator: server, v4, v6
    heapNetwork,       \* the Network object that site.server.Network points to
    acalls,            \* history: the annotators called for the record, in order
    areturn,           \* what the last Annotate call returned
    apc,               \* "idle", "annotate" or "serve"
    request,           \* the ip parameters of the HTTP request
    response,          \* the HTTP response: status and body
    \* ---- main and its goroutines
    flags,             \* which of -tcpinfo.eventsocket and -ipservice.sock are set
    mpc,               \* position of main
    wg,                \* the counter of main's sync.WaitGroup
    gor,               \* position of each goroutine main starts
    tickerClosed,      \* the memoryless ticker has closed tick.C
    srvClosed,         \* ipsrv.Close has been called
    reloaded,          \* history: the annotators reloaded since the last tick
    \* ---- routeview.ParseSystems applied to one text
    sysText,           \* the argument s, a sequence of characters
    sysResult,         \* the []annotator.System returned
    ypc,               \* position: "idle", "text", "parsed"
    \* ---- main before the goroutines: the annotators are constructed
    hostname,          \* the -hostname flag
    mlabHostname,      \* main's mlabHostname, the key into the inventory
    inventory,         \* what the siteinfo provider serves
    initialLocal,      \* history: what findLocalIPs returned
    mainLocal,         \* main's localIPs
    loaded,            \* the siteAnnotator's server, v4 and v6
    annLocal,          \* the localIPs of each annotator
    flow,              \* the ID of the flow the annotators are given
    dirs,              \* what FindDirection returned inside each annotator
    tpc,               \* position of main: "idle", "parse", "site", ...
    \* ---- ipinfo.Parse applied to one AS-name file
    nameData,          \* the argument data: whether it is CSV, and its rows
    nameResult,        \* what Parse returned: a map, an error, or a panic
    npc,               \* position: "idle", "data", "parsed"
    \* ---- rawfile.gcsProvider and the object in GCS
    object,            \* the bytes of the object in the bucket
    md5,               \* gcsProvider.md5
    cachedReader,      \* gcsProvider.cachedReader
    oa,                \* Get's oa.MD5, once Attrs has returned
    got,               \* what the last Get returned: data and err
    gpc,               \* position of Get: "idle", "ready" or "read"
    gcsFilesLoaded,    \* metrics.GCSFilesLoaded by label
    \* ---- the jobs channel of the handler, closed
    jobsClosed,        \* h.jobs has been closed
    closedReceives     \* history: receives of the zero value from the closed h.jobs: "none", "one", "more"

hvars == <<buffersize, jobs, wpc, cur, cancelled, missedJobs, annotationErrors,
           annotated, files, events, enq, writeLog, missedFor>>

svars == <<family, file, index, routeViewRows, spc, query, result>>

dvars == <<localIPs, ID, dpc, direction>>

rvars == <<proc, maxmind, asn4, asn6, asnames, mut, m, rpc, newvals, fetched,
           nextID, reloads, lpc, seen, outcome, before, installed, built4>>

avars == <<annotations, site, heapNetwork, acalls, areturn, apc, request, response>>

mvars == <<flags, mpc, wg, gor, tickerClosed, srvClosed, reloaded>>

yvars == <<sysText, sysResult, ypc>>

tvars == <<hostname, mlabHostname, inventory, initialLocal, mainLocal, loaded,
           annLocal, flow, dirs, tpc>>

nvars == <<nameData, nameResult, npc>>

gvars == <<object, md5, cachedReader, oa, got, gpc, gcsFilesLoaded>>

cvars == <<jobsClosed, closedReceives>>

vars == <<hvars, svars, dvars, rvars, avars, mvars, yvars, tvars, nvars, gvars, cvars>>

nonHandler == <<svars, dvars, rvars, avars, mvars, yvars, tvars, nvars, gvars, cvars>>
nonSearch == <<hvars, dvars, rvars, avars, mvars, yvars, tvars, nvars, gvars, cvars>>
nonDirection == <<hvars, svars, rvars, avars, mvars, yvars, tvars, nvars, gvars, cvars>>
nonReload == <<hvars, svars, dvars, avars, mvars, yvars, tvars, nvars, gvars, cvars>>
nonAnnotate == <<hvars, svars, dvars, rvars, mvars, yvars, tvars, nvars, gvars, cvars>>
nonMain == <<svars, dvars, rvars, avars, yvars, tvars, nvars, gvars, cvars>>
nonSystems == <<hvars, svars, dvars, rvars, avars, mvars, tvars, nvars, gvars, cvars>>
nonStartup == <<hvars, svars, dvars, rvars, avars, mvars, yvars, nvars, gvars, cvars>>
nonNames == <<hvars, svars, dvars, rvars, avars, mvars, yvars, tvars, gvars, cvars>>
nonProvider == <<hvars, svars, dvars, rvars, avars, mvars, yvars, tvars, nvars, cvars>>
nonChannel == <<hvars, svars, dvars, rvars, avars, mvars, yvars, tvars, nvars, gvars>>
nonHandlerChannel == <<svars, dvars, rvars, avars, mvars, yvars, tvars, nvars, gvars>>

-----------------------------------------------------------------------------
(* Bounds of the model. *)

MaxBuffer == 2     \* largest channel capacity explored
MaxEvents == 2     \* number of Open calls explored
MaxRows == 3       \* rows of a RouteViews file
AddrBits == 3      \* width of an IPv4 address, in units compared like bytes
MaxLocal == 3      \* members of the local-IP set
MaxReloads == 2    \* ticks of the reload loop
MaxParams == 2     \* ip parameters of one HTTP request
MaxText == 4       \* characters of a text given to ParseSystems
MaxField == 4      \* characters of the ASN field of an AS-name row

-----------------------------------------------------------------------------
(* Event handler. *)

UUIDs == {"u1", "u2"}

\* A time.Time: an instant (hours since an epoch) and the offset of its
\* location from UTC in hours.
Timestamps == {[utc |-> 23, off |-> 1], [utc |-> 24, off |-> 0]}

\* h.annotators, in the order main registers them.
\* A handler given the site annotator first.
AnnotatorOrderSiteFirst == <<"site", "geo", "asn">>

AnnotatorOrder == <<"geo", "asn", "site">>

Annotators == {AnnotatorOrder[i] : i \in DOMAIN AnnotatorOrder}

\* The sets of annotators whose Annotate returns an error for one job.
FailureCases == {{}, {"geo"}, {"asn", "site"}}

NoneAnnotated == [n |-> 0, invoked |-> <<>>, failed |-> {}]

NoJob == [n |-> 0]

\* timestamp.Format("/2006/01/02/"): the date of the wall clock of the
\* timestamp's own location, as a day number.
FormatDate(ts) == (ts.utc + ts.off) \div 24

\* dir + "/YYYY/MM/DD/" + uuid + ".json"
FilePath(j) == <<FormatDate(j.timestamp), j.uuid>>

\* A reading of the wall clock while the worker writes: later than every
\* event timestamp.
WriteTime == [utc |-> 47, off |-> 0]

\* A record stamped with the clock at write time.
ContentsStampedAtWrite(j) == [UUID |-> j.uuid, Timestamp |-> WriteTime]

\* json.MarshalIndent of the record built from the job.
Contents(j) == [UUID |-> j.uuid, Timestamp |-> j.timestamp]

\* handler.Open with the send case of the select taken into the buffer.
OpenEnqueue(j) ==
    /\ Len(jobs) < buffersize
    /\ jobs' = Append(jobs, j)
    /\ enq' = Append(enq, j.n)
    /\ UNCHANGED <<wpc, cur, missedJobs, missedFor>>

\* handler.Open with the send case taken by a receiver already blocked in
\* the worker's select (the only way a send on a full channel proceeds; the
\* worker can be blocked there only while the buffer is empty).
OpenHandOff(j) ==
    /\ Len(jobs) >= buffersize
    /\ jobs = <<>>
    /\ wpc = "select"
    /\ ~cancelled
    /\ cur' = j
    /\ wpc' = "process"
    /\ enq' = Append(enq, j.n)
    /\ UNCHANGED <<jobs, missedJobs, missedFor>>

\* handler.Open with the default case of the select.
OpenDrop(j) ==
    /\ Len(jobs) >= buffersize
    /\ missedJobs' = [missedJobs EXCEPT !.pipefull = @ + 1]
    /\ missedFor' = [missedFor EXCEPT ![j.n] = @ + 1]
    /\ UNCHANGED <<jobs, wpc, cur, enq>>

\* An Open whose default case drops the event without counting it.
OpenUncounted(ts, uuid) ==
    LET j == [n |-> Len(events) + 1, timestamp |-> ts, uuid |-> uuid] IN
    /\ Len(events) < MaxEvents
    /\ events' = Append(events, [timestamp |-> ts, uuid |-> uuid])
    /\ \/ OpenEnqueue(j)
       \/ OpenHandOff(j)
       \/ /\ Len(jobs) >= buffersize
          /\ UNCHANGED <<jobs, wpc, cur, enq, missedJobs, missedFor>>
    /\ UNCHANGED nonHandler
    /\ UNCHANGED <<buffersize, cancelled, annotationErrors, annotated, files, writeLog>>

\* handler.Open: a non-blocking send of the new job.
Open(ts, uuid) ==
    LET j == [n |-> Len(events) + 1, timestamp |-> ts, uuid |-> uuid] IN
    /\ Len(events) < MaxEvents
    /\ events' = Append(events, [timestamp |-> ts, uuid |-> uuid])
    /\ \/ OpenEnqueue(j)
       \/ OpenHandOff(j)
       \/ OpenDrop(j)
    /\ UNCHANGED nonHandler
    /\ UNCHANGED <<buffersize, cancelled, annotationErrors, annotated, files, writeLog>>

\* main: go h.ProcessIncomingRequests(mainCtx)
StartWorker ==
    /\ wpc = "notstarted"
    /\ wpc' = "check"
    /\ UNCHANGED nonHandler
    /\ UNCHANGED <<buffersize, jobs, cur, cancelled, missedJobs,
                   annotationErrors, annotated, files, events, enq, writeLog, missedFor>>

\* A worker whose loop has no condition.
WorkerCheckIgnoresContext ==
    /\ wpc = "check"
    /\ wpc' = "select"
    /\ UNCHANGED nonHandler
    /\ UNCHANGED <<buffersize, jobs, cur, cancelled, missedJobs,
                   annotationErrors, annotated, files, events, enq, writeLog, missedFor>>

\* ProcessIncomingRequests: the loop condition ctx.Err() == nil.
WorkerCheck ==
    /\ wpc = "check"
    /\ wpc' = IF cancelled THEN "returned" ELSE "select"
    /\ UNCHANGED nonHandler
    /\ UNCHANGED <<buffersize, jobs, cur, cancelled, missedJobs,
                   annotationErrors, annotated, files, events, enq, writeLog, missedFor>>

WorkerReceiveNewest ==
    /\ wpc = "select"
    /\ jobs # <<>>
    /\ cur' = jobs[Len(jobs)]
    /\ jobs' = SubSeq(jobs, 1, Len(jobs) - 1)
    /\ wpc' = "process"
    /\ UNCHANGED nonHandler
    /\ UNCHANGED <<buffersize, cancelled, missedJobs, annotationErrors, annotated, files,
                   events, enq, writeLog, missedFor>>

\* ProcessIncomingRequests: the receive case of the select.
WorkerReceive ==
    /\ wpc = "select"
    /\ jobs # <<>>
    /\ cur' = Head(jobs)
    /\ jobs' = Tail(jobs)
    /\ wpc' = "process"
    /\ UNCHANGED nonHandler
    /\ UNCHANGED <<buffersize, cancelled, missedJobs, annotationErrors, annotated, files,
                   events, enq, writeLog, missedFor>>

\* ProcessIncomingRequests: the ctx.Done() case of the select.
WorkerDone ==
    /\ wpc = "select"
    /\ cancelled
    /\ wpc' = "check"
    /\ UNCHANGED nonHandler
    /\ UNCHANGED <<buffersize, jobs, cur, cancelled, missedJobs,
                   annotationErrors, annotated, files, events, enq, writeLog, missedFor>>

WorkerProcessUncounted ==
    /\ wpc = "process"
    /\ \E failing \in FailureCases :
          /\ annotationErrors' = annotationErrors + Cardinality(failing)
          /\ annotated' = [n |-> cur.n, invoked |-> AnnotatorOrder, failed |-> failing]
    /\ \E ok \in BOOLEAN :
          /\ writeLog' = Append(writeLog, [n |-> cur.n, ok |-> ok])
          /\ files' = IF ok THEN [p \in DOMAIN files \cup {FilePath(cur)} |->
                                     IF p = FilePath(cur) THEN Contents(cur)
                                                          ELSE files[p]]
                          ELSE files
          /\ UNCHANGED <<missedJobs, missedFor>>
    /\ cur' = NoJob
    /\ wpc' = "check"
    /\ UNCHANGED nonHandler
    /\ UNCHANGED <<buffersize, jobs, cancelled, events, enq>>

\* A worker that gives a job up at the first annotator that fails.
WorkerProcessAbortsOnError ==
    /\ wpc = "process"
    /\ \E failing \in FailureCases :
          LET first == IF failing = {} THEN Len(AnnotatorOrder)
                       ELSE CHOOSE i \in DOMAIN AnnotatorOrder :
                               /\ AnnotatorOrder[i] \in failing
                               /\ \A k \in 1..(i - 1) : AnnotatorOrder[k] \notin failing
          IN
          /\ annotationErrors' = annotationErrors + (IF failing = {} THEN 0 ELSE 1)
          /\ annotated' = [n |-> cur.n, invoked |-> SubSeq(AnnotatorOrder, 1, first),
                           failed |-> failing \cap {AnnotatorOrder[first]}]
          /\ IF failing = {}
             THEN /\ writeLog' = Append(writeLog, [n |-> cur.n, ok |-> TRUE])
                  /\ files' = [p \in DOMAIN files \cup {FilePath(cur)} |->
                                  IF p = FilePath(cur) THEN Contents(cur)
                                                       ELSE files[p]]
             ELSE UNCHANGED <<writeLog, files>>
    /\ UNCHANGED <<missedJobs, missedFor>>
    /\ cur' = NoJob
    /\ wpc' = "check"
    /\ UNCHANGED nonHandler
    /\ UNCHANGED <<buffersize, jobs, cancelled, events, enq>>

\* A worker that calls WriteFile a second time when the first call fails.
WorkerProcessRetriesOnce ==
    /\ wpc = "process"
    /\ \E failing \in FailureCases :
          /\ annotationErrors' = annotationErrors + Cardinality(failing)
          /\ annotated' = [n |-> cur.n, invoked |-> AnnotatorOrder, failed |-> failing]
    /\ \E ok \in BOOLEAN :
          IF ok
          THEN /\ writeLog' = Append(writeLog, [n |-> cur.n, ok |-> TRUE])
               /\ files' = [p \in DOMAIN files \cup {FilePath(cur)} |->
                               IF p = FilePath(cur) THEN Contents(cur)
                                                    ELSE files[p]]
               /\ UNCHANGED <<missedJobs, missedFor>>
          ELSE /\ writeLog' = writeLog \o <<[n |-> cur.n, ok |-> FALSE],
                                            [n |-> cur.n, ok |-> FALSE]>>
               /\ missedJobs' = [missedJobs EXCEPT !.writefail = @ + 1]
               /\ missedFor' = [missedFor EXCEPT ![cur.n] = @ + 1]
               /\ UNCHANGED files
    /\ cur' = NoJob
    /\ wpc' = "check"
    /\ UNCHANGED nonHandler
    /\ UNCHANGED <<buffersize, jobs, cancelled, events, enq>>

\* ProcessIncomingRequests: the body run for a received job: every annotator
\* is called (an error only counts), then WriteFile; a WriteFile error counts
\* a missed job.
WorkerProcess ==
    /\ wpc = "process"
    /\ \E failing \in FailureCases :
          /\ annotationErrors' = annotationErrors + Cardinality(failing)
          /\ annotated' = [n |-> cur.n, invoked |-> AnnotatorOrder, failed |-> failing]
    /\ \E ok \in BOOLEAN :
          /\ writeLog' = Append(writeLog, [n |-> cur.n, ok |-> ok])
          /\ IF ok
             THEN /\ files' = [p \in DOMAIN files \cup {FilePath(cur)} |->
                                  IF p = FilePath(cur) THEN Contents(cur)
                                                       ELSE files[p]]
                  /\ UNCHANGED <<missedJobs, missedFor>>
             ELSE /\ missedJobs' = [missedJobs EXCEPT !.writefail = @ + 1]
                  /\ missedFor' = [missedFor EXCEPT ![cur.n] = @ + 1]
                  /\ UNCHANGED files
    /\ cur' = NoJob
    /\ wpc' = "check"
    /\ UNCHANGED nonHandler
    /\ UNCHANGED <<buffersize, jobs, cancelled, events, enq>>

\* The jobs channel is closed.  Nothing in the packages of this program
\* closes it; the receive of the worker tests for it (ok).
CloseJobs ==
    /\ ~jobsClosed
    /\ wpc # "panic"
    /\ jobsClosed' = TRUE
    /\ UNCHANGED closedReceives
    /\ UNCHANGED hvars
    /\ UNCHANGED nonHandlerChannel

\* handler.Open on the closed channel: the send case of the select panics
\* (send on closed channel), which ends the process.
OpenClosed(ts, uuid) ==
    /\ jobsClosed
    /\ wpc # "panic"
    /\ Len(events) < MaxEvents
    /\ events' = Append(events, [timestamp |-> ts, uuid |-> uuid])
    /\ wpc' = "panic"
    /\ UNCHANGED <<buffersize, jobs, cur, cancelled, missedJobs, annotationErrors,
                   annotated, files, enq, writeLog, missedFor>>
    /\ UNCHANGED cvars
    /\ UNCHANGED nonHandlerChannel

\* ProcessIncomingRequests: the receive case of the select on the closed
\* and drained channel: j is nil and ok is false, the body is skipped.
WorkerReceiveClosed ==
    /\ wpc = "select"
    /\ jobs = <<>>
    /\ jobsClosed
    /\ closedReceives' = IF closedReceives = "none" THEN "one" ELSE "more"
    /\ wpc' = "check"
    /\ UNCHANGED jobsClosed
    /\ UNCHANGED <<buffersize, jobs, cur, cancelled, missedJobs, annotationErrors,
                   annotated, files, events, enq, writeLog, missedFor>>
    /\ UNCHANGED nonHandlerChannel

ChannelOpen ==
    /\ jobsClosed = FALSE
    /\ closedReceives = "none"

\* main: mainCancel (a signal, or the end of main).
Cancel ==
    /\ ~cancelled
    /\ cancelled' = TRUE
    /\ UNCHANGED nonHandler
    /\ UNCHANGED <<buffersize, jobs, wpc, cur, missedJobs, annotationErrors, annotated,
                   files, events, enq, writeLog, missedFor>>

\* handler.New, for every channel capacity up to MaxBuffer.
HandlerInit ==
    /\ buffersize \in 0..MaxBuffer
    /\ jobs = <<>>
    /\ wpc = "notstarted"
    /\ cur = NoJob
    /\ cancelled = FALSE
    /\ missedJobs = [pipefull |-> 0, writefail |-> 0]
    /\ annotationErrors = 0
    /\ annotated = NoneAnnotated
    /\ files = <<>>
    /\ events = <<>>
    /\ enq = <<>>
    /\ writeLog = <<>>
    /\ missedFor = [n \in 1..MaxEvents |-> 0]

-----------------------------------------------------------------------------
(* RouteViews prefix index: routeview.ParseRouteView and Index.Search.      *)
(* An address is a sequence of units (0 or 1) compared in order as          *)
(* bytes.Compare compares bytes: an IPv4 address has AddrBits units, an     *)
(* IPv6 address has the units of V4InV6Prefix more.                         *)

\* The prefix that marks an IPv4 address held in IPv6 form (::ffff:a.b.c.d).
V4InV6Prefix == <<0, 1>>

IPv4len == AddrBits
IPv6len == Len(V4InV6Prefix) + AddrBits

Pow2(n) == IF n <= 0 THEN 1 ELSE 2 ^ n

\* The address of width w with value v.
Addr(v, w) == [i \in 1..w |-> (v \div Pow2(w - i)) % 2]

V4Addrs == {Addr(v, IPv4len) : v \in 0..(Pow2(IPv4len) - 1)}
V6Addrs == {Addr(v, IPv6len) : v \in 0..(Pow2(IPv6len) - 1)}

NilIP == <<>>

\* Textual addresses: dotted IPv4 text, IPv6 text (which includes the
\* IPv4-mapped spelling) and text that is no address at all.
V4Text(a) == [form |-> "v4", a |-> a]
V6Text(a) == [form |-> "v6", a |-> a]
BadText == [form |-> "bad", a |-> NilIP]

\* net.ParseIP: the 16-byte form of the address, or nil.
ParseIP(s) ==
    CASE s.form = "v4" -> V4InV6Prefix \o s.a
      [] s.form = "v6" -> s.a
      [] OTHER -> NilIP

\* net.IP.To4: the 4-byte form of an IPv4 address, or nil.
To4(ip) ==
    IF Len(ip) = IPv4len THEN ip
    ELSE IF Len(ip) = IPv6len
            /\ SubSeq(ip, 1, Len(V4InV6Prefix)) = V4InV6Prefix
         THEN SubSeq(ip, Len(V4InV6Prefix) + 1, IPv6len)
         ELSE NilIP

\* bytes.Compare: lexicographic order, a proper prefix being smaller.
Compare(a, b) ==
    LET n == IF Len(a) < Len(b) THEN Len(a) ELSE Len(b)
        diff == {i \in 1..n : a[i] # b[i]}
    IN IF diff = {}
       THEN (IF Len(a) = Len(b) THEN 0 ELSE IF Len(a) < Len(b) THEN -1 ELSE 1)
       ELSE LET k == CHOOSE i \in diff : \A o \in diff : i <= o
            IN IF a[k] < b[k] THEN -1 ELSE 1

\* net.IP.Mask with a mask of ones leading units.
MaskIP(ip, ones) == [i \in 1..Len(ip) |-> IF i <= ones THEN ip[i] ELSE 0]

NoNet == [ok |-> FALSE]

\* net.ParseCIDR(prefix + "/" + length): the network, its address masked.
\* Dotted IPv4 text gives a 4-byte network, any IPv6 text a 16-byte one.
ParseCIDR(prefix, length) ==
    IF prefix.form = "bad" THEN NoNet
    ELSE LET iplen == IF prefix.form = "v4" THEN IPv4len ELSE IPv6len IN
         IF length < 0 \/ length > iplen THEN NoNet
         ELSE [ok |-> TRUE, IP |-> MaskIP(prefix.a, length), ones |-> length]

\* net.IPNet.Contains: network and address are both reduced to 4 bytes when
\* they are IPv4 (networkNumberAndMask drops the leading 12 bytes of a
\* 16-byte mask for a 4-byte network number).
Contains(n, ip) ==
    LET x == IF To4(ip) # NilIP THEN To4(ip) ELSE ip
        nn == IF To4(n.IP) # NilIP THEN To4(n.IP) ELSE n.IP
        ones == IF Len(nn) < Len(n.IP)
                THEN (IF n.ones > Len(n.IP) - Len(nn)
                      THEN n.ones - (Len(n.IP) - Len(nn)) ELSE 0)
                ELSE n.ones
    IN /\ Len(x) = Len(nn)
       /\ \A i \in 1..Len(x) : i <= ones => nn[i] = x[i]

\* A field of a row that should hold the prefix length: decimal text of an
\* integer, or other text.
IntText(v) == [int |-> TRUE, v |-> v]
NotIntText == [int |-> FALSE, v |-> 0]

\* ParseRouteView, the loop body: what one record adds to nim.  The result
\* names the netblock key and the entry, or the row counter that the
\* skipped row increments.
ParseRow(record) ==
    IF Len(record) < 3 THEN [label |-> "missing-fields"]
    ELSE IF ~record[2].int THEN [label |-> "corrupt-netblock"]
    ELSE LET n == ParseCIDR(record[1], record[2].v) IN
         IF ~n.ok THEN [label |-> "corrupt-prefix"]
         ELSE [label |-> "parsed", nb |-> record[2].v,
               net |-> [IP |-> n.IP, ones |-> n.ones, Systems |-> record[3]]]

\* A parser that stops reading the file at the first row it cannot use.
RECURSIVE NetblockEntriesUntilError(_, _)
NetblockEntriesUntilError(rows, nb) ==
    IF rows = <<>> THEN <<>>
    ELSE LET r == ParseRow(Head(rows)) IN
         IF r.label # "parsed" THEN <<>>
         ELSE IF r.nb = nb
         THEN <<r.net>> \o NetblockEntriesUntilError(Tail(rows), nb)
         ELSE NetblockEntriesUntilError(Tail(rows), nb)

\* nim[nb]: the entries of netblock nb in file order.
RECURSIVE NetblockEntries(_, _)
NetblockEntries(rows, nb) ==
    IF rows = <<>> THEN <<>>
    ELSE LET r == ParseRow(Head(rows)) IN
         IF r.label = "parsed" /\ r.nb = nb
         THEN <<r.net>> \o NetblockEntries(Tail(rows), nb)
         ELSE NetblockEntries(Tail(rows), nb)

Netblocks(rows) ==
    {ParseRow(rows[i]).nb : i \in {k \in DOMAIN rows : ParseRow(rows[k]).label = "parsed"}}

\* sort.Sort(nim[k]): the orders sort.Sort may leave the entries in (it is
\* not stable, so entries with equal addresses end in any order).
SortOutcomes(ns) ==
    {s \in {[i \in 1..Len(ns) |-> ns[p[i]]] : p \in Permutations(1..Len(ns))} :
        \A i \in 1..Len(s) : \A k \in 1..Len(s) :
            i < k => Compare(s[i].IP, s[k].IP) <= 0}

\* The netblock keys in descending order.
RECURSIVE Descending(_)
Descending(S) ==
    IF S = {} THEN <<>>
    ELSE LET mx == CHOOSE x \in S : \A y \in S : y <= x
         IN <<mx>> \o Descending(S \ {mx})

RECURSIVE Ascending(_)
Ascending(S) ==
    IF S = {} THEN <<>>
    ELSE LET mn == CHOOSE x \in S : \A y \in S : x <= y
         IN <<mn>> \o Ascending(S \ {mn})

\* The indexes with one sorted NetIndex per key, in the order of keys.
IndexesOver(rows, keys) ==
    LET groups == [k \in 1..Len(keys) |-> SortOutcomes(NetblockEntries(rows, keys[k]))]
    IN {ix \in [1..Len(keys) -> UNION {groups[k] : k \in 1..Len(keys)}] :
           \A k \in 1..Len(keys) : ix[k] \in groups[k]}

\* ParseRouteView with the netblocks ordered from shortest to longest.
ParseRouteViewShortestFirst(rows) == IndexesOver(rows, Ascending(Netblocks(rows)))

\* routeview.ParseRouteView: the indexes it may return for the rows of a file.
ParseRouteView(rows) == IndexesOver(rows, Descending(Netblocks(rows)))

\* sort.Search(n, f): binary search for the least i in [0, n) with f(i),
\* or n.  ns is 1-based here, so f(i) looks at ns[i + 1].
RECURSIVE SortSearch(_, _, _, _)
SortSearch(lo, hi, ns, ip) ==
    IF lo >= hi THEN lo
    ELSE LET h == (lo + hi) \div 2
             f == Contains(ns[h + 1], ip) \/ Compare(ns[h + 1].IP, ip) >= 0
         IN IF ~f THEN SortSearch(h + 1, hi, ns, ip)
                  ELSE SortSearch(lo, h, ns, ip)

NotFound == [found |-> FALSE]

\* Index.Search, the loop over the NetIndexes from position i on.
RECURSIVE SearchFrom(_, _, _)
SearchFrom(ix, i, ip) ==
    IF i > Len(ix) THEN NotFound
    ELSE LET ns == ix[i]
             node == SortSearch(0, Len(ns), ns, ip)
         IN IF node < Len(ns) /\ Contains(ns[node + 1], ip)
            THEN [found |-> TRUE, net |-> ns[node + 1]]
            ELSE SearchFrom(ix, i + 1, ip)

\* routeview.Index.Search
Search(ix, s) ==
    LET parsed == ParseIP(s)
        ip == IF To4(parsed) # NilIP THEN To4(parsed) ELSE parsed
    IN SearchFrom(ix, 1, ip)

\* The rows explored for a file of the given IP version: networks of every
\* length, nested and adjacent, one row whose address has bits beyond its
\* prefix, one network listed twice with different systems, one row with a
\* malformed prefix length.
PrefixText(fam, v) ==
    IF fam = 4 THEN V4Text(Addr(v, IPv4len))
    ELSE V6Text(Addr(Pow2(IPv6len - 1) + v, IPv6len))

FullLen(fam) == IF fam = 4 THEN IPv4len ELSE IPv6len

Rows(fam) ==
    {<<PrefixText(fam, v), IntText(FullLen(fam)), "13335">> : v \in 0..2}
    \cup {<<PrefixText(fam, 1), IntText(FullLen(fam)), "133929_133107">>}
    \cup {<<PrefixText(fam, v), IntText(FullLen(fam) - 1), "4826">> : v \in {0, 3}}
    \cup {<<PrefixText(fam, 0), IntText(FullLen(fam) - 2), "64512,64513">>}
    \cup {<<PrefixText(fam, 0), IntText(0), "0">>}
    \cup {<<PrefixText(fam, 0), NotIntText, "1">>}

RECURSIVE SeqsUpTo(_, _)
SeqsUpTo(S, n) ==
    IF n = 0 THEN {<<>>}
    ELSE LET shorter == SeqsUpTo(S, n - 1)
         IN shorter \cup {Append(q, x) : q \in {t \in shorter : Len(t) = n - 1}, x \in S}

\* The addresses searched for: every IPv4 address in dotted and in
\* IPv4-mapped text, IPv6 addresses, and text that does not parse.
Queries ==
    {V4Text(a) : a \in V4Addrs}
    \cup {V6Text(V4InV6Prefix \o a) : a \in V4Addrs}
    \cup {V6Text(a) : a \in {b \in V6Addrs : b[1] = 1 /\ b[2] = 0}}
    \cup {BadText}

NoResult == [found |-> FALSE, none |-> TRUE]

\* The labels of metrics.RouteViewRows.
RowLabels == {"missing-fields", "corrupt-netblock", "corrupt-prefix", "parsed"}

NoRowsCounted == [l \in RowLabels |-> 0]

\* metrics.RouteViewRows after ParseRouteView: every row of the file has
\* incremented the counter of its label.
RowCounts(rows) ==
    [l \in RowLabels |-> Cardinality({i \in DOMAIN rows : ParseRow(rows[i]).label = l})]

SearchIdle ==
    /\ family = 0
    /\ file = <<>>
    /\ index = <<>>
    /\ routeViewRows = NoRowsCounted
    /\ spc = "idle"
    /\ query = BadText
    /\ result = NoResult

\* A RouteViews file of one IP version is at hand.
SearchInit ==
    /\ family \in {4, 6}
    /\ file \in SeqsUpTo(Rows(family), MaxRows)
    /\ index = <<>>
    /\ routeViewRows = NoRowsCounted
    /\ spc = "file"
    /\ query = BadText
    /\ result = NoResult

\* The rows explored for the parser alone: rows that are indexed, among them
\* one network listed twice and one row with a fourth field, and rows that
\* are not: two fields only, a prefix length that is no integer, a prefix
\* that is no address, a prefix length beyond the width of the address.
ParserRows(fam) ==
    {<<PrefixText(fam, v), IntText(FullLen(fam)), "13335">> : v \in 0..1}
    \cup {<<PrefixText(fam, 1), IntText(FullLen(fam)), "133929_133107">>}
    \cup {<<PrefixText(fam, 0), IntText(FullLen(fam) - 1), "4826">>}
    \cup {<<PrefixText(fam, 2), IntText(FullLen(fam)), "64512", "extra">>}
    \cup {<<PrefixText(fam, 0), IntText(FullLen(fam))>>}
    \cup {<<PrefixText(fam, 0), NotIntText, "1">>}
    \cup {<<BadText, IntText(1), "2">>}
    \cup {<<PrefixText(fam, 0), IntText(FullLen(fam) + 1), "3">>}

\* A RouteViews file of one IP version with well-formed and malformed rows.
ParserInit ==
    /\ family \in {4, 6}
    /\ file \in SeqsUpTo(ParserRows(family), MaxRows)
    /\ index = <<>>
    /\ routeViewRows = NoRowsCounted
    /\ spc = "file"
    /\ query = BadText
    /\ result = NoResult

\* loadGZ: routeview.ParseRouteView(data)
ParseFile ==
    /\ spc = "file"
    /\ index' \in ParseRouteView(file)
    /\ routeViewRows' = RowCounts(file)
    /\ spc' = "parsed"
    /\ UNCHANGED <<family, file, query, result>>
    /\ UNCHANGED nonSearch

\* annotateIPHoldingLock: ix.Search(src)
DoSearch(s) ==
    /\ spc = "parsed"
    /\ query' = s
    /\ result' = Search(index, s)
    /\ spc' = "searched"
    /\ UNCHANGED <<family, file, index, routeViewRows>>
    /\ UNCHANGED nonSearch

SearchAny == \E s \in Queries : DoSearch(s)

-----------------------------------------------------------------------------
(* The earlier index of routeview: one sorted IPNetSlice, built with a      *)
(* pass that drops a network contained in the network kept before it.       *)

\* ParseRouteView of that revision, the loop from the given rows on; kept
\* is its slice result so far.  The error of net.ParseCIDR is not looked
\* at, and n is nil when the first two fields make no CIDR.
RECURSIVE ReadRows(_, _)
ReadRows(rows, kept) ==
    IF rows = <<>> THEN [res |-> "ok", ns |-> kept]
    ELSE LET record == Head(rows) IN
         IF Len(record) < 3 THEN ReadRows(Tail(rows), kept)
         ELSE IF ~record[2].int \/ ~ParseCIDR(record[1], record[2].v).ok
              THEN [res |-> "panic"]
         ELSE LET n == ParseCIDR(record[1], record[2].v) IN
              IF /\ Len(kept) > 1
                 /\ Contains(kept[Len(kept)], n.IP)
                 /\ kept[Len(kept)].Systems = record[3]
              THEN ReadRows(Tail(rows), kept)
              ELSE ReadRows(Tail(rows),
                            Append(kept, [IP |-> n.IP, ones |-> n.ones,
                                            Systems |-> record[3]]))

\* IPNetSlice.Search
IPNetSliceSearch(ns, s) ==
    LET parsed == ParseIP(s)
        ip == IF To4(parsed) # NilIP THEN To4(parsed) ELSE parsed
        node == SortSearch(0, Len(ns), ns, ip)
    IN IF node < Len(ns) /\ Contains(ns[node + 1], ip)
       THEN [found |-> TRUE, net |-> ns[node + 1]]
       ELSE NotFound

\* loadGZ: routeview.ParseRouteView(data), which ends with sort.Sort(result)
ParseSlice ==
    /\ spc = "file"
    /\ LET r == ReadRows(file, <<>>) IN
       IF r.res = "panic"
       THEN /\ spc' = "panic"
            /\ UNCHANGED index
       ELSE /\ index' \in SortOutcomes(r.ns)
            /\ spc' = "parsed"
    /\ UNCHANGED <<family, file, routeViewRows, query, result>>
    /\ UNCHANGED nonSearch

\* annotateIPHoldingLock: the search of the slice
SearchSlice(s) ==
    /\ spc = "parsed"
    /\ query' = s
    /\ result' = IPNetSliceSearch(index, s)
    /\ spc' = "searched"
    /\ UNCHANGED <<family, file, index, routeViewRows>>
    /\ UNCHANGED nonSearch

SearchSliceAny == \E s \in Queries : SearchSlice(s)

-----------------------------------------------------------------------------

(* Direction classifier: annotator.FindDirection. *)

\* net.IP.String: dotted text for an address with a 4-byte form, IPv6 text
\* for any other 16-byte address.
String(ip) ==
    IF To4(ip) # NilIP THEN V4Text(To4(ip))
    ELSE IF Len(ip) = IPv6len THEN V6Text(ip)
    ELSE BadText

Unknown == "Unknown"
SrcIsServer == "SrcIsServer"
DstIsServer == "DstIsServer"

RECURSIVE FindDirectionSwappedFrom(_, _, _)
FindDirectionSwappedFrom(id, locals, i) ==
    IF i > Len(locals) THEN [dir |-> Unknown, err |-> TRUE]
    ELSE IF id.SrcIP = String(locals[i]) THEN [dir |-> DstIsServer, err |-> FALSE]
    ELSE IF id.DstIP = String(locals[i]) THEN [dir |-> SrcIsServer, err |-> FALSE]
    ELSE FindDirectionSwappedFrom(id, locals, i + 1)

\* FindDirection with the two answers exchanged.
FindDirectionSwapped(id, locals) == FindDirectionSwappedFrom(id, locals, 1)

\* FindDirection, the loop over localIPs from position i on.
RECURSIVE FindDirectionFrom(_, _, _)
FindDirectionFrom(id, locals, i) ==
    IF i > Len(locals) THEN [dir |-> Unknown, err |-> TRUE]
    ELSE IF id.SrcIP = String(locals[i]) THEN [dir |-> SrcIsServer, err |-> FALSE]
    ELSE IF id.DstIP = String(locals[i]) THEN [dir |-> DstIsServer, err |-> FALSE]
    ELSE FindDirectionFrom(id, locals, i + 1)

\* annotator.FindDirection
FindDirection(id, locals) == FindDirectionFrom(id, locals, 1)

\* The addresses a local-IP set is drawn from: two IPv4 addresses in 4-byte
\* form, the first of them also in 16-byte form, and an IPv6 address.
LocalIPChoices ==
    {Addr(1, IPv4len), Addr(2, IPv4len), V4InV6Prefix \o Addr(1, IPv4len),
     Addr(Pow2(IPv6len - 1) + 1, IPv6len)}

\* The endpoint texts of a flow: three IPv4 addresses, the first of them
\* also spelled as IPv4-mapped IPv6, and an IPv6 address.
EndpointTexts ==
    {V4Text(Addr(1, IPv4len)), V4Text(Addr(2, IPv4len)), V4Text(Addr(3, IPv4len)),
     V6Text(V4InV6Prefix \o Addr(1, IPv4len)),
     V6Text(Addr(Pow2(IPv6len - 1) + 1, IPv6len))}

NoDirection == [dir |-> "none", err |-> FALSE]

DirectionIdle ==
    /\ localIPs = <<>>
    /\ ID = [SrcIP |-> BadText, DstIP |-> BadText]
    /\ dpc = "idle"
    /\ direction = NoDirection

DirectionInit ==
    /\ localIPs \in SeqsUpTo(LocalIPChoices, MaxLocal)
    /\ ID \in [SrcIP : EndpointTexts, DstIP : EndpointTexts]
    /\ dpc = "input"
    /\ direction = NoDirection

\* An annotator calls annotator.FindDirection(ID, localIPs).
Classify ==
    /\ dpc = "input"
    /\ direction' = FindDirection(ID, localIPs)
    /\ dpc' = "done"
    /\ UNCHANGED <<localIPs, ID>>
    /\ UNCHANGED nonDirection

-----------------------------------------------------------------------------
(* Hot-swappable datasets: geoannotator and asnannotator, New and Reload,   *)
(* concurrent with the lookups of the event worker and of the RPC server.   *)

Datasets == {"mm", "as4", "as6", "names"}

\* The goroutines that look addresses up: the event worker (Annotate) and
\* the RPC server (AnnotateIP).
Threads == {"worker", "rpcserver"}

\* A dataset object: its identity and its value.  NilObject is nil.
NilObject == [id |-> 0, val |-> "nil"]

\* What a provider's Get hands over for the MaxMind dataset: whether the
\* bytes are a gzip stream, whether the tar inside reads, whether it has the
\* member GeoLite2-City.mmdb, whether that member is a MaxMind database, and
\* the data in it.
TarBlobs ==
    {[gz |-> TRUE, tar |-> TRUE, member |-> TRUE, db |-> TRUE, c |-> "cities"],
     [gz |-> FALSE, tar |-> FALSE, member |-> FALSE, db |-> FALSE, c |-> ""],
     [gz |-> TRUE, tar |-> FALSE, member |-> FALSE, db |-> FALSE, c |-> ""],
     [gz |-> TRUE, tar |-> TRUE, member |-> FALSE, db |-> FALSE, c |-> ""],
     [gz |-> TRUE, tar |-> TRUE, member |-> TRUE, db |-> FALSE, c |-> ""]}

\* What a provider's Get hands over for a RouteViews dataset: whether the
\* bytes are a gzip stream, and the rows in it.
GZBlobs ==
    {[gz |-> TRUE, c |-> "routes"],
     [gz |-> FALSE, c |-> ""]}

\* What a provider's Get hands over for the AS names: whether the bytes are
\* well-formed CSV, and its rows; the first field of a row is a sequence of
\* characters.
NamesHeader == << <<"a", "s", "n">>, "name" >>
CSVBlobs ==
    {[csv |-> TRUE, rows |-> <<NamesHeader, << <<"A", "S", "5">>, "Test Number Five" >>,
                               << <<"A", "S">>, "No Number" >> >>],
     [csv |-> FALSE, rows |-> <<>>],
     [csv |-> TRUE, rows |-> <<>>],
     [csv |-> TRUE, rows |-> <<NamesHeader, << <<"A">>, "Short" >> >>]}

Blobs(d) ==
    CASE d = "mm" -> TarBlobs
      [] d = "names" -> CSVBlobs
      [] OTHER -> GZBlobs

\* content.Provider.Get: an error, the no-change sentinel (only once the
\* provider has handed data over), or data.
Gets(d) ==
    {[k |-> "error"]}
    \cup (IF d \in fetched THEN {[k |-> "nochange"]} ELSE {})
    \cup {[k |-> "data", blob |-> b] : b \in Blobs(d)}

Failed == [res |-> "error", obj |-> NilObject]
Loaded(obj) == [res |-> "ok", obj |-> obj]

\* tarreader.FromTarGZ(tgz, "GeoLite2-City.mmdb"): newTarReader fails on a
\* bad gzip header; readFile dereferences the nil header when tr.Next fails
\* with anything but io.EOF, and returns ErrFileNotFound at io.EOF.
FromTarGZ(tgz) ==
    IF ~tgz.gz THEN [res |-> "error"]
    ELSE IF ~tgz.tar THEN [res |-> "panic"]
    ELSE IF ~tgz.member THEN [res |-> "error"]
    ELSE [res |-> "ok", data |-> [db |-> tgz.db, c |-> tgz.c]]

\* geoip2.FromBytes
FromBytes(data, id) ==
    IF ~data.db THEN Failed ELSE Loaded([id |-> id, val |-> data.c])

\* geoannotator.load, given what Get returned, g.maxmind and the identity
\* of the reader it would allocate.
GeoLoad(g, old, id) ==
    IF g.k = "nochange" THEN Loaded(old)
    ELSE IF g.k = "error" THEN Failed
    ELSE LET t == FromTarGZ(g.blob) IN
         IF t.res = "ok" THEN FromBytes(t.data, id)
         ELSE [res |-> t.res, obj |-> NilObject]

\* tarreader.FromGZ
FromGZ(gz) == IF ~gz.gz THEN [res |-> "error"] ELSE [res |-> "ok", data |-> gz.c]

\* asnannotator.loadGZ: ParseRouteView has no error result.
LoadGZ(gz, id) ==
    LET d == FromGZ(gz) IN
    IF d.res = "ok" THEN Loaded([id |-> id, val |-> d.data]) ELSE Failed

\* A load that builds a new index from the old one when nothing changed.
LoadReparses(g, old, id) ==
    IF g.k = "nochange" THEN Loaded([id |-> id, val |-> old.val])
    ELSE IF g.k = "error" THEN Failed
    ELSE LoadGZ(g.blob, id)

\* A load that returns nil with no error when nothing changed.
LoadForgetsOld(g, old, id) ==
    IF g.k = "nochange" THEN Loaded(NilObject)
    ELSE IF g.k = "error" THEN Failed
    ELSE LoadGZ(g.blob, id)

\* asnannotator.load
Load(g, old, id) ==
    IF g.k = "nochange" THEN Loaded(old)
    ELSE IF g.k = "error" THEN Failed
    ELSE LoadGZ(g.blob, id)

Digits == {"0", "1", "2", "3", "4", "5", "6", "7", "8", "9"}

DigitValue(c) ==
    CASE c = "0" -> 0 [] c = "1" -> 1 [] c = "2" -> 2 [] c = "3" -> 3
      [] c = "4" -> 4 [] c = "5" -> 5 [] c = "6" -> 6 [] c = "7" -> 7
      [] c = "8" -> 8 [] c = "9" -> 9

RECURSIVE Decimal(_)
Decimal(cs) ==
    IF cs = <<>> THEN 0
    ELSE Decimal(SubSeq(cs, 1, Len(cs) - 1)) * 10 + DigitValue(cs[Len(cs)])

\* The digits of 1<<32 - 1.
MaxUint32 == <<"4", "2", "9", "4", "9", "6", "7", "2", "9", "5">>

RECURSIVE StripZeros(_)
StripZeros(cs) ==
    IF Len(cs) > 1 /\ cs[1] = "0" THEN StripZeros(Tail(cs)) ELSE cs

\* Whether the number written cs is above the number written ds; neither
\* has leading zeros.
Above(cs, ds) ==
    \/ Len(cs) > Len(ds)
    \/ /\ Len(cs) = Len(ds)
       /\ \E i \in DOMAIN cs :
             /\ DigitValue(cs[i]) > DigitValue(ds[i])
             /\ \A j \in 1..(i - 1) : cs[j] = ds[j]

\* strconv.ParseUint(s, 10, 32): a syntax error unless s is one or more
\* digits, a range error above 1<<32 - 1.
ParseUint(cs) ==
    IF cs = <<>> \/ \E i \in DOMAIN cs : cs[i] \notin Digits THEN [ok |-> FALSE]
    ELSE IF Above(StripZeros(cs), MaxUint32) THEN [ok |-> FALSE]
    ELSE [ok |-> TRUE, v |-> Decimal(StripZeros(cs))]

\* ipinfo.Parse, the loop over rows[1:] from row i on, adding to newmap.
RECURSIVE ParseNameRows(_, _, _)
ParseNameRows(rows, i, newmap) ==
    IF i > Len(rows) THEN [res |-> "ok", map |-> newmap]
    ELSE LET row == rows[i] IN
         IF Len(row) < 2 THEN ParseNameRows(rows, i + 1, newmap)
         ELSE IF Len(row[1]) < 2 THEN [res |-> "panic"]
         ELSE LET asn == ParseUint(SubSeq(row[1], 3, Len(row[1]))) IN
              IF ~asn.ok THEN ParseNameRows(rows, i + 1, newmap)
              ELSE ParseNameRows(rows, i + 1,
                        [k \in DOMAIN newmap \cup {asn.v} |->
                            IF k = asn.v THEN row[2] ELSE newmap[k]])

\* ipinfo.Parse: rows[1:] panics when there is no row, asnstring[2:] when
\* the first field of a row is shorter than two characters.
Parse(data) ==
    IF ~data.csv THEN [res |-> "error"]
    ELSE IF Len(data.rows) < 1 THEN [res |-> "panic"]
    ELSE ParseNameRows(data.rows, 2, <<>>)

\* asnannotator.loadNames
LoadNames(g, old, id) ==
    IF g.k = "nochange" THEN Loaded(old)
    ELSE IF g.k = "error" THEN Failed
    ELSE LET r == Parse(g.blob) IN
         IF r.res = "ok" THEN Loaded([id |-> id, val |-> r.map])
         ELSE [res |-> r.res, obj |-> NilObject]

Unlocked == [readers |-> {}, writer |-> "none"]

NoneSeen == [mm |-> 0, as4 |-> 0, as6 |-> 0, names |-> 0]
NoOutcome == [d \in Datasets |-> "none"]

Current == [mm |-> maxmind, as4 |-> asn4, as6 |-> asn6, names |-> asnames]

Triple(a4, a6, n) == [as4 |-> a4.id, as6 |-> a6.id, names |-> n.id]

\* How a load ended, for the history.
Ended(g, r) ==
    IF r.res = "ok" THEN (IF g.k = "nochange" THEN "nochange" ELSE "data")
    ELSE "failed"

Fetched(d, g) == IF g.k = "data" THEN fetched \cup {d} ELSE fetched

\* geoannotator.New: the first load; rtx.Must ends the process on an error.
GeoNew ==
    /\ proc = "starting"
    /\ rpc = "new_geo"
    /\ \E g \in Gets("mm") :
          LET r == GeoLoad(g, maxmind, nextID) IN
          /\ fetched' = Fetched("mm", g)
          /\ IF r.res = "ok"
             THEN /\ maxmind' = r.obj
                  /\ nextID' = nextID + 1
                  /\ rpc' = "new_asn"
                  /\ UNCHANGED proc
             ELSE /\ proc' = IF r.res = "panic" THEN "panic" ELSE "fatal"
                  /\ UNCHANGED <<maxmind, nextID, rpc, built4>>
    /\ UNCHANGED <<asn4, asn6, asnames, mut, m, newvals, reloads, lpc, seen,
                   outcome, before, installed, built4>>
    /\ UNCHANGED nonReload

\* asnannotator.New: the three first loads; main then starts the goroutines.
AsnNew ==
    /\ proc = "starting"
    /\ rpc = "new_asn"
    /\ \E g4 \in Gets("as4"), g6 \in Gets("as6"), gn \in Gets("names") :
          LET r4 == Load(g4, NilObject, nextID)
              r6 == Load(g6, NilObject, nextID + 1)
              rn == LoadNames(gn, NilObject, nextID + 2)
          IN
          IF r4.res = "ok" /\ r6.res = "ok" /\ rn.res = "ok"
          THEN /\ asn4' = r4.obj
               /\ asn6' = r6.obj
               /\ asnames' = rn.obj
               /\ fetched' = fetched \cup {"as4", "as6", "names"}
               /\ nextID' = nextID + 3
               /\ installed' = {Triple(r4.obj, r6.obj, rn.obj)}
               /\ built4' = r4.obj.id
               /\ proc' = "running"
               /\ rpc' = "tick"
          ELSE /\ proc' = IF r4.res = "ok" /\ r6.res = "ok" /\ rn.res = "panic"
                           THEN "panic" ELSE "fatal"
               /\ UNCHANGED <<asn4, asn6, asnames, fetched, nextID, installed, rpc,
                              built4>>
    /\ UNCHANGED <<maxmind, mut, m, newvals, reloads, lpc, seen, outcome, before>>
    /\ UNCHANGED nonReload

\* A reload loop that takes both write locks before it loads anything.
TickHoldingLocks ==
    /\ proc = "running"
    /\ rpc = "tick"
    /\ reloads < MaxReloads
    /\ mut.writer = "none" /\ mut.readers = {}
    /\ m.writer = "none" /\ m.readers = {}
    /\ mut' = [mut EXCEPT !.writer = "held"]
    /\ m' = [m EXCEPT !.writer = "held"]
    /\ reloads' = reloads + 1
    /\ rpc' = "geo_load"
    /\ newvals' = [d \in Datasets |-> NilObject]
    /\ outcome' = NoOutcome
    /\ before' = Current
    /\ UNCHANGED <<proc, maxmind, asn4, asn6, asnames, fetched,
                   nextID, lpc, seen, installed, built4>>
    /\ UNCHANGED nonReload

\* main, the reload goroutine: a tick arrives and geo.Reload is called.
Tick ==
    /\ proc = "running"
    /\ rpc = "tick"
    /\ reloads < MaxReloads
    /\ reloads' = reloads + 1
    /\ rpc' = "geo_load"
    /\ newvals' = [d \in Datasets |-> NilObject]
    /\ outcome' = NoOutcome
    /\ before' = Current
    /\ UNCHANGED <<proc, maxmind, asn4, asn6, asnames, mut, m, fetched,
                   nextID, lpc, seen, installed, built4>>
    /\ UNCHANGED nonReload

\* geoannotator.Reload: g.load(ctx); on an error Reload returns and the
\* loop goes on to asn.Reload.
GeoReloadLoad ==
    /\ proc = "running"
    /\ rpc = "geo_load"
    /\ \E g \in Gets("mm") :
          LET r == GeoLoad(g, maxmind, nextID) IN
          /\ fetched' = Fetched("mm", g)
          /\ outcome' = [outcome EXCEPT !.mm = Ended(g, r)]
          /\ nextID' = IF r.res = "ok" /\ g.k = "data" THEN nextID + 1 ELSE nextID
          /\ newvals' = [newvals EXCEPT !.mm = r.obj]
          /\ proc' = IF r.res = "panic" THEN "panic" ELSE proc
          /\ rpc' = IF r.res = "ok" THEN "geo_lock" ELSE "asn_load4"
    /\ UNCHANGED <<maxmind, asn4, asn6, asnames, mut, m, reloads, lpc, seen,
                   before, installed, built4>>
    /\ UNCHANGED nonReload

\* sync.RWMutex.Lock, first half: the writer announces itself, which keeps
\* new readers out.
GeoLock ==
    /\ proc = "running"
    /\ rpc = "geo_lock"
    /\ mut' = [mut EXCEPT !.writer = "waiting"]
    /\ rpc' = "geo_locking"
    /\ UNCHANGED <<proc, maxmind, asn4, asn6, asnames, m, newvals, fetched,
                   nextID, reloads, lpc, seen, outcome, before, installed, built4>>
    /\ UNCHANGED nonReload

\* sync.RWMutex.Lock, second half: the writer has the lock once the readers
\* have left.
GeoLocked ==
    /\ proc = "running"
    /\ rpc = "geo_locking"
    /\ mut.readers = {}
    /\ mut' = [mut EXCEPT !.writer = "held"]
    /\ rpc' = "geo_set"
    /\ UNCHANGED <<proc, maxmind, asn4, asn6, asnames, m, newvals, fetched,
                   nextID, reloads, lpc, seen, outcome, before, installed, built4>>
    /\ UNCHANGED nonReload

\* geoannotator.Reload: g.maxmind = newMM
GeoSet ==
    /\ proc = "running"
    /\ rpc = "geo_set"
    /\ maxmind' = newvals.mm
    /\ rpc' = "geo_unlock"
    /\ UNCHANGED <<proc, asn4, asn6, asnames, mut, m, newvals, fetched,
                   nextID, reloads, lpc, seen, outcome, before, installed, built4>>
    /\ UNCHANGED nonReload

\* geoannotator.Reload: the deferred g.mut.Unlock(); asn.Reload is next.
GeoUnlock ==
    /\ proc = "running"
    /\ rpc = "geo_unlock"
    /\ mut' = [mut EXCEPT !.writer = "none"]
    /\ rpc' = "asn_load4"
    /\ UNCHANGED <<proc, maxmind, asn4, asn6, asnames, m, newvals, fetched,
                   nextID, reloads, lpc, seen, outcome, before, installed, built4>>
    /\ UNCHANGED nonReload

\* A load of Reload that assigns a new IPv4 index to the annotator as soon as
\* it is built, before the other loads and outside the critical section.
AsnReloadLoadAssigning(d, at, then) ==
    /\ proc = "running"
    /\ rpc = at
    /\ \E g \in Gets(d) :
          LET r == IF d = "names" THEN LoadNames(g, asnames, nextID)
                   ELSE Load(g, IF d = "as4" THEN asn4 ELSE asn6, nextID)
          IN
          /\ fetched' = Fetched(d, g)
          /\ outcome' = [outcome EXCEPT ![d] = Ended(g, r)]
          /\ nextID' = IF r.res = "ok" /\ g.k = "data" THEN nextID + 1 ELSE nextID
          /\ newvals' = [newvals EXCEPT ![d] = r.obj]
          /\ asn4' = IF d = "as4" /\ r.res = "ok" THEN r.obj ELSE asn4
          /\ built4' = IF d = "as4" /\ g.k = "data"
                        THEN (IF r.res = "ok" THEN r.obj.id ELSE 0)
                        ELSE built4
          /\ proc' = IF r.res = "panic" THEN "panic" ELSE proc
          /\ rpc' = IF r.res = "ok" THEN then ELSE "tick"
    /\ UNCHANGED <<maxmind, asn6, asnames, mut, m, reloads, lpc, seen,
                   before, installed>>
    /\ UNCHANGED nonReload

\* asnAnnotator.Reload: one of its three loads; on an error Reload returns.
AsnReloadLoad(d, at, then) ==
    /\ proc = "running"
    /\ rpc = at
    /\ \E g \in Gets(d) :
          LET r == IF d = "names" THEN LoadNames(g, asnames, nextID)
                   ELSE Load(g, IF d = "as4" THEN asn4 ELSE asn6, nextID)
          IN
          /\ fetched' = Fetched(d, g)
          /\ outcome' = [outcome EXCEPT ![d] = Ended(g, r)]
          /\ nextID' = IF r.res = "ok" /\ g.k = "data" THEN nextID + 1 ELSE nextID
          /\ newvals' = [newvals EXCEPT ![d] = r.obj]
          /\ built4' = IF d = "as4" /\ g.k = "data"
                        THEN (IF r.res = "ok" THEN r.obj.id ELSE 0)
                        ELSE built4
          /\ proc' = IF r.res = "panic" THEN "panic" ELSE proc
          /\ rpc' = IF r.res = "ok" THEN then ELSE "tick"
    /\ UNCHANGED <<maxmind, asn4, asn6, asnames, mut, m, reloads, lpc, seen,
                   before, installed>>
    /\ UNCHANGED nonReload

AsnReloadLoad4 == AsnReloadLoad("as4", "asn_load4", "asn_load6")
AsnReloadLoad6 == AsnReloadLoad("as6", "asn_load6", "asn_loadnames")
AsnReloadLoadNames == AsnReloadLoad("names", "asn_loadnames", "asn_lock")

\* asnAnnotator.Reload: a.m.Lock(), first half.
AsnLock ==
    /\ proc = "running"
    /\ rpc = "asn_lock"
    /\ m' = [m EXCEPT !.writer = "waiting"]
    /\ rpc' = "asn_locking"
    /\ UNCHANGED <<proc, maxmind, asn4, asn6, asnames, mut, newvals, fetched,
                   nextID, reloads, lpc, seen, outcome, before, installed, built4>>
    /\ UNCHANGED nonReload

\* A Lock that returns while readers are still inside.
AsnLockedIgnoringReaders ==
    /\ proc = "running"
    /\ rpc = "asn_locking"
    /\ m' = [m EXCEPT !.writer = "held"]
    /\ rpc' = "asn_set4"
    /\ UNCHANGED <<proc, maxmind, asn4, asn6, asnames, mut, newvals, fetched,
                   nextID, reloads, lpc, seen, outcome, before, installed, built4>>
    /\ UNCHANGED nonReload

\* asnAnnotator.Reload: a.m.Lock(), second half.
AsnLocked ==
    /\ proc = "running"
    /\ rpc = "asn_locking"
    /\ m.readers = {}
    /\ m' = [m EXCEPT !.writer = "held"]
    /\ rpc' = "asn_set4"
    /\ UNCHANGED <<proc, maxmind, asn4, asn6, asnames, mut, newvals, fetched,
                   nextID, reloads, lpc, seen, outcome, before, installed, built4>>
    /\ UNCHANGED nonReload

\* asnAnnotator.Reload: a.asn4 = new4
AsnSet4 ==
    /\ proc = "running"
    /\ rpc = "asn_set4"
    /\ asn4' = newvals.as4
    /\ rpc' = "asn_set6"
    /\ UNCHANGED <<proc, maxmind, asn6, asnames, mut, m, newvals, fetched,
                   nextID, reloads, lpc, seen, outcome, before, installed, built4>>
    /\ UNCHANGED nonReload

\* asnAnnotator.Reload: a.asn6 = new6
AsnSet6 ==
    /\ proc = "running"
    /\ rpc = "asn_set6"
    /\ asn6' = newvals.as6
    /\ rpc' = "asn_setnames"
    /\ UNCHANGED <<proc, maxmind, asn4, asnames, mut, m, newvals, fetched,
                   nextID, reloads, lpc, seen, outcome, before, installed, built4>>
    /\ UNCHANGED nonReload

\* asnAnnotator.Reload: a.asnames = newnames
AsnSetNames ==
    /\ proc = "running"
    /\ rpc = "asn_setnames"
    /\ asnames' = newvals.names
    /\ installed' = installed \cup {Triple(asn4, asn6, newvals.names)}
    /\ rpc' = "asn_unlock"
    /\ UNCHANGED <<proc, maxmind, asn4, asn6, mut, m, newvals, fetched,
                   nextID, reloads, lpc, seen, outcome, before, built4>>
    /\ UNCHANGED nonReload

\* asnAnnotator.Reload: the deferred a.m.Unlock(); the loop waits for the
\* next tick.
AsnUnlock ==
    /\ proc = "running"
    /\ rpc = "asn_unlock"
    /\ m' = [m EXCEPT !.writer = "none"]
    /\ rpc' = "tick"
    /\ UNCHANGED <<proc, maxmind, asn4, asn6, asnames, mut, newvals, fetched,
                   nextID, reloads, lpc, seen, outcome, before, installed, built4>>
    /\ UNCHANGED nonReload

\* geoannotator.Annotate / AnnotateIP: g.mut.RLock()
GeoRLock(t) ==
    /\ proc = "running"
    /\ lpc[t] = "idle"
    /\ mut.writer = "none"
    /\ mut' = [mut EXCEPT !.readers = @ \cup {t}]
    /\ lpc' = [lpc EXCEPT ![t] = "geo_city"]
    /\ seen' = [seen EXCEPT ![t] = [NoneSeen EXCEPT !.mm = maxmind.id]]
    /\ UNCHANGED <<proc, maxmind, asn4, asn6, asnames, m, rpc, newvals, fetched,
                   nextID, reloads, outcome, before, installed, built4>>
    /\ UNCHANGED nonReload

\* annotateIPHoldingLock: g.maxmind.City(ip) and the shaping of the record,
\* then the deferred g.mut.RUnlock().
GeoCity(t) ==
    /\ proc = "running"
    /\ lpc[t] = "geo_city"
    /\ mut' = [mut EXCEPT !.readers = @ \ {t}]
    /\ lpc' = [lpc EXCEPT ![t] = "idle"]
    /\ seen' = [seen EXCEPT ![t] = NoneSeen]
    /\ UNCHANGED <<proc, maxmind, asn4, asn6, asnames, m, rpc, newvals, fetched,
                   nextID, reloads, outcome, before, installed, built4>>
    /\ UNCHANGED nonReload

\* asnAnnotator.Annotate / AnnotateIP: a.m.RLock()
AsnRLock(t) ==
    /\ proc = "running"
    /\ lpc[t] = "idle"
    /\ m.writer = "none"
    /\ m' = [m EXCEPT !.readers = @ \cup {t}]
    /\ lpc' = [lpc EXCEPT ![t] = "asn_search4"]
    /\ UNCHANGED <<proc, maxmind, asn4, asn6, asnames, mut, rpc, newvals, fetched,
                   nextID, reloads, seen, outcome, before, installed, built4>>
    /\ UNCHANGED nonReload

\* annotateIPHoldingLock: a.asn4.Search(src); a hit goes on to the names.
AsnSearch4(t) ==
    /\ proc = "running"
    /\ lpc[t] = "asn_search4"
    /\ seen' = [seen EXCEPT ![t].as4 = asn4.id]
    /\ \E hit \in BOOLEAN :
          lpc' = [lpc EXCEPT ![t] = IF hit THEN "asn_names" ELSE "asn_search6"]
    /\ UNCHANGED <<proc, maxmind, asn4, asn6, asnames, mut, m, rpc, newvals,
                   fetched, nextID, reloads, outcome, before, installed, built4>>
    /\ UNCHANGED nonReload

\* annotateIPHoldingLock: a.asn6.Search(src); a miss returns Missing.
AsnSearch6(t) ==
    /\ proc = "running"
    /\ lpc[t] = "asn_search6"
    /\ seen' = [seen EXCEPT ![t].as6 = asn6.id]
    /\ \E hit \in BOOLEAN :
          lpc' = [lpc EXCEPT ![t] = IF hit THEN "asn_names" ELSE "asn_runlock"]
    /\ UNCHANGED <<proc, maxmind, asn4, asn6, asnames, mut, m, rpc, newvals,
                   fetched, nextID, reloads, outcome, before, installed, built4>>
    /\ UNCHANGED nonReload

\* annotateIPHoldingLock: a.asnames[ann.ASNumber]
AsnNames(t) ==
    /\ proc = "running"
    /\ lpc[t] = "asn_names"
    /\ seen' = [seen EXCEPT ![t].names = asnames.id]
    /\ lpc' = [lpc EXCEPT ![t] = "asn_runlock"]
    /\ UNCHANGED <<proc, maxmind, asn4, asn6, asnames, mut, m, rpc, newvals,
                   fetched, nextID, reloads, outcome, before, installed, built4>>
    /\ UNCHANGED nonReload

\* asnAnnotator.Annotate / AnnotateIP: the deferred a.m.RUnlock()
AsnRUnlock(t) ==
    /\ proc = "running"
    /\ lpc[t] = "asn_runlock"
    /\ m' = [m EXCEPT !.readers = @ \ {t}]
    /\ lpc' = [lpc EXCEPT ![t] = "idle"]
    /\ seen' = [seen EXCEPT ![t] = NoneSeen]
    /\ UNCHANGED <<proc, maxmind, asn4, asn6, asnames, mut, rpc, newvals, fetched,
                   nextID, reloads, outcome, before, installed, built4>>
    /\ UNCHANGED nonReload

ReloadIdle ==
    /\ proc = "idle"
    /\ maxmind = NilObject
    /\ asn4 = NilObject
    /\ asn6 = NilObject
    /\ asnames = NilObject
    /\ mut = Unlocked
    /\ m = Unlocked
    /\ rpc = "idle"
    /\ newvals = [d \in Datasets |-> NilObject]
    /\ fetched = {}
    /\ nextID = 1
    /\ reloads = 0
    /\ lpc = [t \in Threads |-> "idle"]
    /\ seen = [t \in Threads |-> NoneSeen]
    /\ outcome = NoOutcome
    /\ before = [d \in Datasets |-> NilObject]
    /\ installed = {}
    /\ built4 = 0

\* main before geoannotator.New and asnannotator.New.
ReloadInit ==
    /\ proc = "starting"
    /\ maxmind = NilObject
    /\ asn4 = NilObject
    /\ asn6 = NilObject
    /\ asnames = NilObject
    /\ mut = Unlocked
    /\ m = Unlocked
    /\ rpc = "new_geo"
    /\ newvals = [d \in Datasets |-> NilObject]
    /\ fetched = {}
    /\ nextID = 1
    /\ reloads = 0
    /\ lpc = [t \in Threads |-> "idle"]
    /\ seen = [t \in Threads |-> NoneSeen]
    /\ outcome = NoOutcome
    /\ before = [d \in Datasets |-> NilObject]
    /\ installed = {}
    /\ built4 = 0

-----------------------------------------------------------------------------
(* The annotators at work on one record: Annotate of the geo, the ASN and   *)
(* the site annotator, and the AnnotateIP lookups of the RPC server.        *)

\* strings.Split(s, sep) for a one-character separator.
RECURSIVE Split(_, _)
Split(cs, sep) ==
    IF \A i \in DOMAIN cs : cs[i] # sep THEN <<cs>>
    ELSE LET k == CHOOSE i \in DOMAIN cs :
                    cs[i] = sep /\ \A j \in 1..(i - 1) : cs[j] # sep
         IN <<SubSeq(cs, 1, k - 1)>> \o Split(SubSeq(cs, k + 1, Len(cs)), sep)

\* An inner loop that gives up the rest of the system at a token that is not
\* a number.
RECURSIVE ParseASNsUntilError(_)
ParseASNsUntilError(asns) ==
    IF asns = <<>> THEN <<>>
    ELSE LET value == ParseUint(Head(asns)) IN
         IF ~value.ok THEN <<>>
         ELSE <<value.v>> \o ParseASNsUntilError(Tail(asns))

\* ParseSystems, the inner loop: the tokens of one system that are numbers.
RECURSIVE ParseASNs(_)
ParseASNs(asns) ==
    IF asns = <<>> THEN <<>>
    ELSE LET value == ParseUint(Head(asns)) IN
         IF ~value.ok THEN ParseASNs(Tail(asns))
         ELSE <<value.v>> \o ParseASNs(Tail(asns))

\* routeview.ParseSystems
ParseSystems(s) ==
    LET systems == Split(s, "_") IN
    [i \in 1..Len(systems) |-> [ASNs |-> ParseASNs(Split(systems[i], ","))]]

\* annotator.Network.FirstASN
FirstASN(n) ==
    IF Len(n.Systems) = 0 THEN 0
    ELSE IF Len(n.Systems[1].ASNs) = 0 THEN 0
    ELSE n.Systems[1].ASNs[1]

\* A nil pointer, and the text of the empty string.
Nil == [nil |-> TRUE]
NoText == ""

\* The empty text in a CIDR field, which holds the text of a net.IPNet.
NoCIDR == [IP |-> NilIP, ones |-> -1]

\* &annotator.Network{}
ZeroNetwork ==
    [nil |-> FALSE, CIDR |-> NoCIDR, ASNumber |-> 0, ASName |-> NoText,
     Missing |-> FALSE, Systems |-> <<>>]

\* &annotator.Geolocation{}
ZeroGeolocation ==
    [nil |-> FALSE, ContinentCode |-> NoText, CountryCode |-> NoText,
     CountryName |-> NoText, Subdivision1ISOCode |-> NoText,
     Subdivision1Name |-> NoText, Subdivision2ISOCode |-> NoText,
     Subdivision2Name |-> NoText, MetroCode |-> 0, City |-> NoText,
     PostalCode |-> NoText, Latitude |-> 0, Longitude |-> 0,
     AccuracyRadiusKm |-> 0, Missing |-> FALSE]

\* net.IPNet.String: the address and the prefix length.
IPNetString(n) == [IP |-> n.IP, ones |-> n.ones]

\* a.asnames[ann.ASNumber] behind the nil check of the map.
ASName(names, number) ==
    IF names = Nil THEN NoText
    ELSE IF number \in DOMAIN names THEN names[number] ELSE NoText

\* asnAnnotator.annotateIPHoldingLock, given a.asn4, a.asn6 and a.asnames.
AsnAnnotateIPHoldingLock(ix4, ix6, names, src) ==
    LET r4 == Search(ix4, src)
        r6 == Search(ix6, src)
        hit == IF r4.found THEN r4.net ELSE r6.net
        systems == ParseSystems(hit.Systems)
        number == FirstASN([Systems |-> systems])
    IN IF ~r4.found /\ ~r6.found
       THEN [ZeroNetwork EXCEPT !.Missing = TRUE]
       ELSE [ZeroNetwork EXCEPT !.Systems = systems,
                                !.ASNumber = number,
                                !.CIDR = IPNetString(hit),
                                !.ASName = ASName(names, number)]

\* The record geoip2 returns for an address the database does not cover.
EmptyCity ==
    [Continent |-> [GeoNameID |-> 0, Code |-> NoText],
     Country |-> [GeoNameID |-> 0, IsoCode |-> NoText, Name |-> NoText],
     City |-> [GeoNameID |-> 0, Name |-> NoText],
     Postal |-> NoText,
     Location |-> [MetroCode |-> 0, Latitude |-> 0, Longitude |-> 0,
                   AccuracyRadius |-> 0],
     Subdivisions |-> <<>>]

\* geoip2.Reader.City: the database holds records by address; an address
\* it does not cover gives the empty record and no error.
City(db, ip) ==
    LET key == IF To4(ip) # NilIP THEN To4(ip) ELSE ip IN
    IF key \in DOMAIN db THEN db[key] ELSE EmptyCity

\* geoannotator.isEmpty
IsEmpty(r) ==
    r.City.GeoNameID = 0 /\ r.Country.GeoNameID = 0 /\ r.Continent.GeoNameID = 0

\* geoannotator.annotateIPHoldingLock: the error it returns and what it
\* stores through geo (old when it stores nothing).
GeoAnnotateIPHoldingLock(db, ip, old) ==
    IF ip = NilIP THEN [err |-> TRUE, geo |-> old]
    ELSE LET record == City(db, ip) IN
         IF IsEmpty(record)
         THEN [err |-> FALSE, geo |-> [ZeroGeolocation EXCEPT !.Missing = TRUE]]
         ELSE LET tmp == [ZeroGeolocation EXCEPT
                             !.ContinentCode = record.Continent.Code,
                             !.CountryCode = record.Country.IsoCode,
                             !.CountryName = record.Country.Name,
                             !.MetroCode = record.Location.MetroCode,
                             !.City = record.City.Name,
                             !.PostalCode = record.Postal,
                             !.Latitude = record.Location.Latitude,
                             !.Longitude = record.Location.Longitude,
                             !.AccuracyRadiusKm = record.Location.AccuracyRadius]
                  one == IF Len(record.Subdivisions) > 0
                         THEN [tmp EXCEPT
                                 !.Subdivision1ISOCode = record.Subdivisions[1].IsoCode,
                                 !.Subdivision1Name = record.Subdivisions[1].Name]
                         ELSE tmp
                  two == IF Len(record.Subdivisions) > 1
                         THEN [one EXCEPT
                                 !.Subdivision2ISOCode = record.Subdivisions[2].IsoCode,
                                 !.Subdivision2Name = record.Subdivisions[2].Name]
                         ELSE one
              IN [err |-> FALSE, geo |-> two]

\* geoannotator.annotateHoldingLock
GeoAnnotateHoldingLock(db, src, old) ==
    IF ParseIP(src) = NilIP THEN [err |-> TRUE, geo |-> old]
    ELSE GeoAnnotateIPHoldingLock(db, ParseIP(src), old)

\* The systems field of a RouteViews row, as characters.
SystemsOne == <<"1", "3">>
SystemsMOAS == <<"2", "0", ",", "x", "_", "7">>

\* The RouteViews files behind the annotators: the IPv4 file covers address
\* 2 and the IPv6 file covers the IPv6 client address; nothing covers the
\* IPv4 addresses 1 and 3.
AnnotateRows4 == << <<PrefixText(4, 2), IntText(FullLen(4)), SystemsMOAS>> >>
AnnotateRows6 == << <<PrefixText(6, 0), IntText(FullLen(6) - 1), SystemsOne>> >>

\* The AS names: one for the first ASN of each file.
AnnotateNames == (13 :> "Thirteen") @@ (20 :> "Twenty")

\* A MaxMind database: a city with two subdivisions for the IPv4 address 2,
\* a country without city for the IPv6 address, and for the IPv4 address 1
\* a record that has a location but no GeoNameID.
CityRecord ==
    [Continent |-> [GeoNameID |-> 6255149, Code |-> "NA"],
     Country |-> [GeoNameID |-> 6252001, IsoCode |-> "US", Name |-> "United States"],
     City |-> [GeoNameID |-> 5128581, Name |-> "New York"],
     Postal |-> "10011",
     Location |-> [MetroCode |-> 501, Latitude |-> 40, Longitude |-> -74,
                   AccuracyRadius |-> 5],
     Subdivisions |-> <<[IsoCode |-> "NY", Name |-> "New York"],
                        [IsoCode |-> "NYC", Name |-> "Manhattan"]>>]

CountryRecord ==
    [EmptyCity EXCEPT !.Continent = [GeoNameID |-> 6255148, Code |-> "EU"],
                      !.Country = [GeoNameID |-> 2921044, IsoCode |-> "DE",
                                   Name |-> "Germany"]]

LocationRecord ==
    [EmptyCity EXCEPT !.Location = [MetroCode |-> 0, Latitude |-> 1, Longitude |-> 1,
                                    AccuracyRadius |-> 100]]

AnnotateDB ==
    (Addr(2, IPv4len) :> CityRecord)
    @@ (Addr(Pow2(IPv6len - 1) + 1, IPv6len) :> CountryRecord)
    @@ (Addr(1, IPv4len) :> LocationRecord)

EmptyDB == <<>>

\* &annotator.Annotations{UUID: ev.UUID, Timestamp: ev.Timestamp}
ZeroAnnotations ==
    [Server |-> [Site |-> NoText, Machine |-> NoText, Geo |-> Nil, Network |-> Nil],
     Client |-> [Geo |-> Nil, Network |-> Nil]]

\* A record that already holds the annotations of some flow.
UsedAnnotations ==
    [Server |-> [Site |-> "yyz02", Machine |-> "mlab2", Geo |-> Nil, Network |-> Nil],
     Client |-> [Geo |-> [ZeroGeolocation EXCEPT !.CountryCode = "CA"],
                 Network |-> [ZeroNetwork EXCEPT !.ASNumber = 812]]]

\* A pointer to the Network object of the site annotator's server record.
ServerNetworkPtr == [nil |-> FALSE, ref |-> "site.server.Network"]

\* The zero net.IPNet, and the site configurations: an IPv4 and an IPv6
\* network, or only one of them.
ZeroIPNet == [IP |-> NilIP, ones |-> 0]

SiteV4 == [IP |-> Addr(0, IPv4len), ones |-> IPv4len - 2]
SiteV6 == [IP |-> Addr(Pow2(IPv6len - 1), IPv6len), ones |-> IPv6len - 2]

SiteServer ==
    [Site |-> "lga03", Machine |-> "mlab1",
     Geo |-> [ZeroGeolocation EXCEPT !.City = "New York"],
     Network |-> ServerNetworkPtr]

SiteNetwork == [ZeroNetwork EXCEPT !.ASNumber = 6453, !.ASName = "TATA"]

Sites ==
    {[server |-> SiteServer, v4 |-> n4, v6 |-> n6] :
        n4 \in {ZeroIPNet, SiteV4}, n6 \in {ZeroIPNet, SiteV6}}
    \ {[server |-> SiteServer, v4 |-> ZeroIPNet, v6 |-> ZeroIPNet]}

NoReturn == [a |-> "none", err |-> "none"]
NoResponse == [status |-> 0, body |-> <<>>]

\* annotator.ErrNoAnnotation, and the error of FindDirection.
ErrNoAnnotation == "Could not annotate IP address"
ErrUnknownDirection == "Can't annotate connection"

\* A geo Annotate that stores a Missing record before it reports that the
\* direction is unknown.
GeoAnnotateMarksMissing ==
    /\ apc = "annotate"
    /\ "geo" \notin {acalls[i] : i \in DOMAIN acalls}
    /\ acalls' = Append(acalls, "geo")
    /\ LET d == FindDirection(ID, localIPs)
           src == IF d.dir = DstIsServer THEN ID.SrcIP ELSE ID.DstIP
           r == GeoAnnotateHoldingLock(maxmind.val, src, annotations.Client.Geo)
       IN IF d.err
          THEN /\ areturn' = [a |-> "geo", err |-> ErrUnknownDirection]
               /\ annotations' = [annotations EXCEPT !.Client.Geo =
                                     [ZeroGeolocation EXCEPT !.Missing = TRUE]]
          ELSE /\ annotations' = [annotations EXCEPT !.Client.Geo = r.geo]
               /\ areturn' = [a |-> "geo",
                              err |-> IF r.err THEN ErrNoAnnotation ELSE "nil"]
    /\ UNCHANGED <<site, heapNetwork, apc, request, response>>
    /\ UNCHANGED nonAnnotate

\* geoannotator.Annotate
GeoAnnotate ==
    /\ apc = "annotate"
    /\ "geo" \notin {acalls[i] : i \in DOMAIN acalls}
    /\ acalls' = Append(acalls, "geo")
    /\ LET d == FindDirection(ID, localIPs)
           src == IF d.dir = DstIsServer THEN ID.SrcIP ELSE ID.DstIP
           r == GeoAnnotateHoldingLock(maxmind.val, src, annotations.Client.Geo)
       IN IF d.err
          THEN /\ areturn' = [a |-> "geo", err |-> ErrUnknownDirection]
               /\ UNCHANGED annotations
          ELSE /\ annotations' = [annotations EXCEPT !.Client.Geo = r.geo]
               /\ areturn' = [a |-> "geo",
                              err |-> IF r.err THEN ErrNoAnnotation ELSE "nil"]
    /\ UNCHANGED <<site, heapNetwork, apc, request, response>>
    /\ UNCHANGED nonAnnotate

\* An ASN annotator that fills in the client's network only on a record
\* whose client already has a geolocation.
AsnAnnotateAfterGeo ==
    /\ apc = "annotate"
    /\ "asn" \notin {acalls[i] : i \in DOMAIN acalls}
    /\ acalls' = Append(acalls, "asn")
    /\ LET d == FindDirection(ID, localIPs)
           src == IF d.dir = DstIsServer THEN ID.SrcIP ELSE ID.DstIP
       IN IF d.err
          THEN /\ areturn' = [a |-> "asn", err |-> ErrUnknownDirection]
               /\ UNCHANGED annotations
          ELSE /\ annotations' =
                     IF annotations.Client.Geo = Nil THEN annotations
                     ELSE [annotations EXCEPT !.Client.Network =
                              AsnAnnotateIPHoldingLock(asn4.val, asn6.val, asnames.val, src)]
               /\ areturn' = [a |-> "asn", err |-> "nil"]
    /\ UNCHANGED <<site, heapNetwork, apc, request, response>>
    /\ UNCHANGED nonAnnotate

\* asnAnnotator.Annotate
AsnAnnotate ==
    /\ apc = "annotate"
    /\ "asn" \notin {acalls[i] : i \in DOMAIN acalls}
    /\ acalls' = Append(acalls, "asn")
    /\ LET d == FindDirection(ID, localIPs)
           src == IF d.dir = DstIsServer THEN ID.SrcIP ELSE ID.DstIP
       IN IF d.err
          THEN /\ areturn' = [a |-> "asn", err |-> ErrUnknownDirection]
               /\ UNCHANGED annotations
          ELSE /\ annotations' =
                     [annotations EXCEPT !.Client.Network =
                         AsnAnnotateIPHoldingLock(asn4.val, asn6.val, asnames.val, src)]
               /\ areturn' = [a |-> "asn", err |-> "nil"]
    /\ UNCHANGED <<site, heapNetwork, apc, request, response>>
    /\ UNCHANGED nonAnnotate

\* An annotate that uses whichever configuration the site has, whatever the
\* family of src.
SiteCaseAnyFamily(src) ==
    IF site.v4.IP # NilIP THEN "v4"
    ELSE IF site.v6.IP # NilIP THEN "v6"
    ELSE "none"

\* siteAnnotator.annotate: which configuration it copies for src, if any.
SiteCase(src) ==
    LET n == ParseIP(src) IN
    IF To4(n) # NilIP /\ site.v4.IP # NilIP THEN "v4"
    ELSE IF To4(n) = NilIP /\ site.v6.IP # NilIP THEN "v6"
    ELSE "none"

\* siteAnnotator.Annotate: annotate copies *g.server into the record and
\* writes the CIDR through the Network pointer the copy shares with it.
SiteAnnotate ==
    /\ apc = "annotate"
    /\ "site" \notin {acalls[i] : i \in DOMAIN acalls}
    /\ acalls' = Append(acalls, "site")
    /\ LET d == FindDirection(ID, localIPs)
           src == IF d.dir = DstIsServer THEN ID.DstIP ELSE ID.SrcIP
           c == SiteCase(src)
       IN IF d.err
          THEN /\ areturn' = [a |-> "site", err |-> ErrUnknownDirection]
               /\ UNCHANGED <<annotations, heapNetwork>>
          ELSE /\ areturn' = [a |-> "site", err |-> "nil"]
               /\ IF c = "none"
                  THEN UNCHANGED <<annotations, heapNetwork>>
                  ELSE /\ annotations' = [annotations EXCEPT !.Server = site.server]
                       /\ heapNetwork' =
                             [heapNetwork EXCEPT !.CIDR =
                                 IPNetString(IF c = "v4" THEN site.v4 ELSE site.v6)]
    /\ UNCHANGED <<site, apc, request, response>>
    /\ UNCHANGED nonAnnotate

\* The datasets are loaded and no Reload is running.
ReloadQuiet ==
    /\ proc = "idle"
    /\ mut = Unlocked
    /\ m = Unlocked
    /\ rpc = "idle"
    /\ newvals = [d \in Datasets |-> NilObject]
    /\ fetched = {}
    /\ nextID = 1
    /\ reloads = 0
    /\ lpc = [t \in Threads |-> "idle"]
    /\ seen = [t \in Threads |-> NoneSeen]
    /\ outcome = NoOutcome
    /\ before = [d \in Datasets |-> NilObject]
    /\ installed = {}
    /\ built4 = 0

AnnotateIdle ==
    /\ annotations = ZeroAnnotations
    /\ site = [server |-> SiteServer, v4 |-> ZeroIPNet, v6 |-> ZeroIPNet]
    /\ heapNetwork = SiteNetwork
    /\ acalls = <<>>
    /\ areturn = NoReturn
    /\ apc = "idle"
    /\ request = <<>>
    /\ response = NoResponse

\* A flow and a fresh record are at hand; the annotators are built.
AnnotateInit ==
    /\ annotations \in {ZeroAnnotations, UsedAnnotations}
    /\ site \in Sites
    /\ heapNetwork = SiteNetwork
    /\ acalls = <<>>
    /\ areturn = NoReturn
    /\ apc = "annotate"
    /\ request = <<>>
    /\ response = NoResponse
    /\ localIPs \in SeqsUpTo(LocalIPChoices, MaxLocal)
    /\ ID \in [SrcIP : EndpointTexts, DstIP : EndpointTexts]
    /\ dpc = "idle"
    /\ direction = NoDirection
    /\ maxmind = [id |-> 1, val |-> AnnotateDB]
    /\ asn4 \in {[id |-> 2, val |-> ix] : ix \in ParseRouteView(AnnotateRows4)}
    /\ asn6 \in {[id |-> 3, val |-> ix] : ix \in ParseRouteView(AnnotateRows6)}
    /\ asnames = [id |-> 4, val |-> AnnotateNames]
    /\ ReloadQuiet

\* An AnnotateIP of the ASN annotator that returns nil when both searches
\* fail.
AsnAnnotateIPNilOnMiss(src) ==
    LET n == AsnAnnotateIPHoldingLock(asn4.val, asn6.val, asnames.val, src) IN
    IF n.Missing THEN Nil ELSE n

\* asnAnnotator.AnnotateIP
AsnAnnotateIP(src) == AsnAnnotateIPHoldingLock(asn4.val, asn6.val, asnames.val, src)

\* geoannotator.AnnotateIP, called with a nil *Geolocation to store through.
GeoAnnotateIP(ip) == GeoAnnotateIPHoldingLock(maxmind.val, ip, Nil)

\* handler.ServeHTTP, the loop over ipstrings from position i on, adding
\* to resp.
RECURSIVE AnnotateIPs(_, _, _)
AnnotateIPs(ipstrings, i, resp) ==
    IF i > Len(ipstrings) THEN resp
    ELSE LET ipstring == ipstrings[i]
             ip == ParseIP(ipstring)
             a == [Network |-> AsnAnnotateIP(ipstring), Geo |-> GeoAnnotateIP(ip).geo]
         IN IF ip = NilIP THEN AnnotateIPs(ipstrings, i + 1, resp)
            ELSE AnnotateIPs(ipstrings, i + 1,
                     [k \in DOMAIN resp \cup {ipstring} |->
                         IF k = ipstring THEN a ELSE resp[k]])

StatusOK == 200
StatusBadRequest == 400

\* A ServeHTTP that refuses the whole request when one parameter does not
\* parse.
RespondStrict(ipstrings, written) ==
    LET resp == AnnotateIPs(ipstrings, 1, <<>>) IN
    IF DOMAIN resp = {} \/ \E i \in DOMAIN ipstrings : ParseIP(ipstrings[i]) = NilIP
    THEN [status |-> StatusBadRequest, body |-> <<>>, count |-> "bad_request_error"]
    ELSE [status |-> StatusOK, body |-> resp,
          count |-> IF written THEN "success" ELSE "write_error"]

\* handler.ServeHTTP after the loop: the status, the body handed to
\* rw.Write and the label counted; written tells whether rw.Write succeeded.
Respond(ipstrings, written) ==
    LET resp == AnnotateIPs(ipstrings, 1, <<>>) IN
    IF DOMAIN resp = {}
    THEN [status |-> StatusBadRequest, body |-> <<>>, count |-> "bad_request_error"]
    ELSE [status |-> StatusOK, body |-> resp,
          count |-> IF written THEN "success" ELSE "write_error"]

\* handler.ServeHTTP
ServeHTTP ==
    /\ apc = "serve"
    /\ response = NoResponse
    /\ \E written \in BOOLEAN : response' = Respond(request, written)
    /\ UNCHANGED <<annotations, site, heapNetwork, acalls, areturn, apc, request>>
    /\ UNCHANGED nonAnnotate

\* The ip parameters of a request: IPv4 addresses the datasets cover and do
\* not cover, one of them also in IPv4-mapped spelling, an IPv6 address, and
\* text that is no address.
ParamTexts ==
    {V4Text(Addr(1, IPv4len)), V4Text(Addr(2, IPv4len)), V4Text(Addr(3, IPv4len)),
     V6Text(V4InV6Prefix \o Addr(2, IPv4len)),
     V6Text(Addr(Pow2(IPv6len - 1) + 1, IPv6len)),
     BadText}

\* A request for /v1/annotate/ips has arrived; the annotators are built.
ServeInit ==
    /\ annotations = ZeroAnnotations
    /\ site = [server |-> SiteServer, v4 |-> ZeroIPNet, v6 |-> ZeroIPNet]
    /\ heapNetwork = SiteNetwork
    /\ acalls = <<>>
    /\ areturn = NoReturn
    /\ apc = "serve"
    /\ request \in SeqsUpTo(ParamTexts, MaxParams)
    /\ response = NoResponse
    /\ maxmind \in {[id |-> 1, val |-> db] : db \in {AnnotateDB, EmptyDB}}
    /\ asn4 \in {[id |-> 2, val |-> ix] : ix \in ParseRouteView(AnnotateRows4)}
    /\ asn6 \in {[id |-> 3, val |-> ix] : ix \in ParseRouteView(AnnotateRows6)}
    /\ asnames \in {[id |-> 4, val |-> AnnotateNames], [id |-> 0, val |-> Nil]}
    /\ ReloadQuiet

-----------------------------------------------------------------------------
(* main: the goroutines it starts, the wait group and the root context.     *)
(* The root context mainCtx is the context of the worker, so its            *)
(* cancellation is the variable cancelled. The events the listener passes   *)
(* to Open, and the jobs they make, are those of the event handler above;   *)
(* here no event arrives.                                                    *)

Goroutines == {"closer", "reloader", "worker", "listener", "serve", "rpccloser"}

NotStarted == [g \in Goroutines |-> "none"]

\* wg.Add(1); go func() {...}() for goroutine g, which begins at position at.
Go(g, at) ==
    /\ wg' = wg + 1
    /\ gor' = [gor EXCEPT ![g] = at]

\* wg.Done() as the last statement of goroutine g.
Done(g) ==
    /\ wg' = wg - 1
    /\ gor' = [gor EXCEPT ![g] = "done"]

handlerData == <<buffersize, jobs, wpc, cur, missedJobs, annotationErrors, annotated,
                 files, events, enq, writeLog, missedFor>>

\* main: prometheusx.MustServeMetrics and the goroutine that closes the
\* metrics server.
MainServeMetrics ==
    /\ mpc = "metrics"
    /\ mpc' = "reload"
    /\ Go("closer", "waiting")
    /\ UNCHANGED <<reloaded, flags, tickerClosed, srvClosed, cancelled, handlerData, nonMain>>

\* main: the goroutine of the reload loop.
MainGoReload ==
    /\ mpc = "reload"
    /\ mpc' = "worker"
    /\ Go("reloader", "spawned")
    /\ UNCHANGED <<reloaded, flags, tickerClosed, srvClosed, cancelled, handlerData, nonMain>>

\* main: handler.New and the goroutine of ProcessIncomingRequests, when the
\* event socket is configured.
MainGoWorker ==
    /\ mpc = "worker"
    /\ IF flags.eventsocket
       THEN mpc' = "listener" /\ Go("worker", "spawned")
       ELSE mpc' = "rpc" /\ UNCHANGED <<reloaded, wg, gor>>
    /\ UNCHANGED <<reloaded, flags, tickerClosed, srvClosed, cancelled, handlerData, nonMain>>

\* main: the goroutine of eventsocket.MustRun.
MainGoListener ==
    /\ mpc = "listener"
    /\ mpc' = "rpc"
    /\ Go("listener", "scanning")
    /\ UNCHANGED <<reloaded, flags, tickerClosed, srvClosed, cancelled, handlerData, nonMain>>

\* main: ipservice.NewServer, wg.Add(2) and the two goroutines of the RPC
\* server, when its socket is configured.
MainGoRPC ==
    /\ mpc = "rpc"
    /\ mpc' = "running"
    /\ IF flags.ipservice
       THEN /\ wg' = wg + 2
            /\ gor' = [gor EXCEPT !["serve"] = "serving", !["rpccloser"] = "waiting"]
       ELSE UNCHANGED <<reloaded, wg, gor>>
    /\ UNCHANGED <<reloaded, flags, tickerClosed, srvClosed, cancelled, handlerData, nonMain>>

\* main: mainRunning <- struct{}{} (the channel has room for one value).
MainRunning ==
    /\ mpc = "running"
    /\ mpc' = "wait"
    /\ UNCHANGED <<reloaded, flags, wg, gor, tickerClosed, srvClosed, cancelled, handlerData, nonMain>>

\* main: wg.Wait() returns, main returns and the deferred mainCancel runs.
MainWait ==
    /\ mpc = "wait"
    /\ wg = 0
    /\ mpc' = "returned"
    /\ cancelled' = TRUE
    /\ UNCHANGED <<reloaded, flags, wg, gor, tickerClosed, srvClosed, handlerData, nonMain>>

\* The metrics closer: <-mainCtx.Done(), close the server, wg.Done().
CloserRun ==
    /\ gor["closer"] = "waiting"
    /\ cancelled
    /\ Done("closer")
    /\ UNCHANGED <<reloaded, flags, mpc, tickerClosed, srvClosed, cancelled, handlerData, nonMain>>

\* The reload goroutine: memoryless.NewTicker(mainCtx, reloadConfig).
ReloaderNewTicker ==
    /\ gor["reloader"] = "spawned"
    /\ gor' = [gor EXCEPT !["reloader"] = "range"]
    /\ UNCHANGED <<reloaded, flags, mpc, wg, tickerClosed, srvClosed, cancelled, handlerData, nonMain>>

\* A ticker that goes on ticking whatever happens to the context.
TickerKeepsTicking ==
    /\ gor["reloader"] \notin {"none", "spawned"}
    /\ cancelled
    /\ ~tickerClosed
    /\ UNCHANGED <<reloaded, tickerClosed, flags, mpc, wg, gor, srvClosed, cancelled, handlerData,
                   nonMain>>

\* The ticker bound to mainCtx: it closes tick.C once the context is done.
TickerClose ==
    /\ gor["reloader"] \notin {"none", "spawned"}
    /\ cancelled
    /\ ~tickerClosed
    /\ tickerClosed' = TRUE
    /\ UNCHANGED <<reloaded, flags, mpc, wg, gor, srvClosed, cancelled, handlerData, nonMain>>

\* The reload goroutine: for range tick.C receives a tick.
ReloaderTick ==
    /\ gor["reloader"] = "range"
    /\ ~tickerClosed
    /\ gor' = [gor EXCEPT !["reloader"] = "geo"]
    /\ reloaded' = <<>>
    /\ UNCHANGED <<flags, mpc, wg, tickerClosed, srvClosed, cancelled, handlerData, nonMain>>

\* The reload goroutine: geo.Reload(mainCtx) returns.
ReloaderGeo ==
    /\ gor["reloader"] = "geo"
    /\ gor' = [gor EXCEPT !["reloader"] = "asn"]
    /\ reloaded' = Append(reloaded, "geo")
    /\ UNCHANGED <<flags, mpc, wg, tickerClosed, srvClosed, cancelled, handlerData, nonMain>>

\* The reload goroutine: asn.Reload(mainCtx) returns.
ReloaderAsn ==
    /\ gor["reloader"] = "asn"
    /\ gor' = [gor EXCEPT !["reloader"] = "range"]
    /\ reloaded' = Append(reloaded, "asn")
    /\ UNCHANGED <<flags, mpc, wg, tickerClosed, srvClosed, cancelled, handlerData, nonMain>>

\* The reload goroutine: the range over the closed channel ends; wg.Done().
ReloaderEnd ==
    /\ gor["reloader"] = "range"
    /\ tickerClosed
    /\ Done("reloader")
    /\ UNCHANGED <<reloaded, flags, mpc, tickerClosed, srvClosed, cancelled, handlerData, nonMain>>

\* The worker goroutine: the call h.ProcessIncomingRequests(mainCtx).
WorkerGo ==
    /\ gor["worker"] = "spawned"
    /\ StartWorker

\* The worker goroutine: ProcessIncomingRequests has returned; wg.Done().
WorkerExit ==
    /\ gor["worker"] = "spawned"
    /\ wpc = "returned"
    /\ Done("worker")
    /\ UNCHANGED <<reloaded, flags, mpc, tickerClosed, srvClosed, cancelled, handlerData, nonMain>>

\* The listener goroutine: MustRun returns once mainCtx is done; wg.Done().
ListenerReturn ==
    /\ gor["listener"] = "scanning"
    /\ cancelled
    /\ Done("listener")
    /\ UNCHANGED <<reloaded, flags, mpc, tickerClosed, srvClosed, cancelled, handlerData, nonMain>>

\* The RPC closer: <-mainCtx.Done(), ipsrv.Close(), wg.Done().
RPCCloserRun ==
    /\ gor["rpccloser"] = "waiting"
    /\ cancelled
    /\ srvClosed' = TRUE
    /\ Done("rpccloser")
    /\ UNCHANGED <<reloaded, flags, mpc, tickerClosed, cancelled, handlerData, nonMain>>

\* The RPC server: ipsrv.Serve() returns nil once the server is closed (the
\* error http.ErrServerClosed is suppressed); wg.Done().
ServeReturn ==
    /\ gor["serve"] = "serving"
    /\ srvClosed
    /\ Done("serve")
    /\ UNCHANGED <<reloaded, flags, mpc, tickerClosed, srvClosed, cancelled, handlerData, nonMain>>

MainIdle ==
    /\ flags = [eventsocket |-> FALSE, ipservice |-> FALSE]
    /\ mpc = "idle"
    /\ wg = 0
    /\ gor = NotStarted
    /\ tickerClosed = FALSE
    /\ srvClosed = FALSE
    /\ reloaded = <<>>

\* main once the flags are parsed, for every choice of the two optional
\* sockets. The initial loads of the datasets, between the first two
\* goroutines, are taken to succeed.
MainInit ==
    /\ flags \in [eventsocket : BOOLEAN, ipservice : BOOLEAN]
    /\ mpc = "metrics"
    /\ wg = 0
    /\ gor = NotStarted
    /\ tickerClosed = FALSE
    /\ srvClosed = FALSE
    /\ reloaded = <<>>

-----------------------------------------------------------------------------
(* main before the goroutines: the hostname is parsed, the local addresses  *)
(* are read, and the site, the geo and the ASN annotator are constructed,   *)
(* each with a local-IP set; then the annotators are given a flow.          *)

\* The node names host.Parse knows how to read, with the fields it finds
\* and the text Name.String makes of them; a name of a managed instance
\* group carries a suffix that String leaves out.
HostNames ==
    {[text |-> "mlab1-lga03.mlab-oti.measurement-lab.org",
      Machine |-> "mlab1", Site |-> "lga03",
      canonical |-> "mlab1-lga03.mlab-oti.measurement-lab.org"],
     [text |-> "mlab2-yyz02.mlab-oti.measurement-lab.org-t95j",
      Machine |-> "mlab2", Site |-> "yyz02",
      canonical |-> "mlab2-yyz02.mlab-oti.measurement-lab.org"]}

HostnameFlags == {h.text : h \in HostNames} \cup {"localhost"}

\* host.Parse
HostParse(text) ==
    IF \E h \in HostNames : h.text = text
    THEN [ok |-> TRUE, name |-> CHOOSE h \in HostNames : h.text = text]
    ELSE [ok |-> FALSE]

\* host.Name.String
HostString(name) == name.canonical

CanonicalNames == {h.canonical : h \in HostNames}

\* The text of a CIDR in the inventory: empty, or a prefix and a length.
EmptyCIDRText == [empty |-> TRUE, prefix |-> BadText, length |-> 0]
CIDRText(prefix, length) == [empty |-> FALSE, prefix |-> prefix, length |-> length]

\* An IPv4 and an IPv6 CIDR whose address has bits beyond the prefix, and a
\* text that is no CIDR.
InventoryV4 == CIDRText(V4Text(Addr(3, IPv4len)), IPv4len - 1)
InventoryV6 == CIDRText(V6Text(Addr(Pow2(IPv6len - 1) + 3, IPv6len)), IPv6len - 1)
MalformedCIDR == CIDRText(BadText, 0)

\* The Annotation of an inventory entry.
InventoryAnnotations ==
    {[Site |-> "lga03", Machine |-> "mlab1",
      Geo |-> [ZeroGeolocation EXCEPT !.City = "New York"], Network |-> ServerNetworkPtr],
     [Site |-> "yyz02", Machine |-> "mlab2",
      Geo |-> [ZeroGeolocation EXCEPT !.City = "Toronto"], Network |-> ServerNetworkPtr]}

\* siteinfoAnnotation: the entries of the inventory.
InventoryEntries ==
    {[Annotation |-> a, Network |-> [IPv4 |-> InventoryV4, IPv6 |-> InventoryV6],
      Type |-> t] : a \in InventoryAnnotations, t \in {"physical", "virtual"}}
    \cup {[Annotation |-> a, Network |-> [IPv4 |-> n4, IPv6 |-> n6], Type |-> "virtual"] :
             a \in InventoryAnnotations,
             n4 \in {EmptyCIDRText, InventoryV4}, n6 \in {EmptyCIDRText, InventoryV6}}
    \cup {[Annotation |-> a, Network |-> [IPv4 |-> MalformedCIDR, IPv6 |-> InventoryV6],
            Type |-> "physical"] : a \in InventoryAnnotations}

Absent == [absent |-> TRUE]

\* What the provider of the inventory hands over: an error, bytes that are
\* no JSON, or a map from names to entries.
Inventories ==
    {[k |-> "error"], [k |-> "badjson"]}
    \cup {[k |-> "map", s |-> f] : f \in [CanonicalNames -> InventoryEntries \cup {Absent}]}

\* What findLocalIPs may return.
InitialLocalIPs ==
    {<<>>, <<Addr(1, IPv4len)>>, <<Addr(1, IPv4len), Addr(Pow2(IPv6len - 1) + 1, IPv6len)>>}

NetOf(n) == [IP |-> n.IP, ones |-> n.ones]

\* parseCIDR
SiteParseCIDR(v4, v6) ==
    LET v4net == ParseCIDR(v4.prefix, v4.length)
        v6net == ParseCIDR(v6.prefix, v6.length)
        v4ret == IF ~v4.empty /\ v4net.ok THEN NetOf(v4net) ELSE ZeroIPNet
        v6ret == IF ~v6.empty /\ v6net.ok THEN NetOf(v6net) ELSE ZeroIPNet
    IN IF (v4.empty \/ ~v4net.ok) /\ ~v4.empty
       THEN [err |-> TRUE, v4 |-> ZeroIPNet, v6 |-> ZeroIPNet]
       ELSE IF (v6.empty \/ ~v6net.ok) /\ ~v6.empty
       THEN [err |-> TRUE, v4 |-> v4ret, v6 |-> ZeroIPNet]
       ELSE [err |-> FALSE, v4 |-> v4ret, v6 |-> v6ret]

NotLoaded == [server |-> Nil, v4 |-> ZeroIPNet, v6 |-> ZeroIPNet]

\* A load that appends the addresses whatever the type of the site.
SiteLoadAnyType(js, name, locals, g) ==
    IF js.k # "map" THEN [err |-> TRUE, g |-> g, localIPs |-> <<>>]
    ELSE IF js.s[name] = Absent THEN [err |-> TRUE, g |-> g, localIPs |-> <<>>]
    ELSE LET v == js.s[name]
             nets == SiteParseCIDR(v.Network.IPv4, v.Network.IPv6)
             parsed == [g EXCEPT !.v4 = nets.v4, !.v6 = nets.v6]
         IN IF nets.err THEN [err |-> TRUE, g |-> parsed, localIPs |-> <<>>]
            ELSE [err |-> FALSE,
                  g |-> [parsed EXCEPT !.server = v.Annotation],
                  localIPs |-> locals \o <<nets.v4.IP, nets.v6.IP>>]

\* siteAnnotator.load, with New's assignment of the result to g.server.
SiteLoad(js, name, locals, g) ==
    IF js.k # "map" THEN [err |-> TRUE, g |-> g, localIPs |-> <<>>]
    ELSE IF js.s[name] = Absent THEN [err |-> TRUE, g |-> g, localIPs |-> <<>>]
    ELSE LET v == js.s[name]
             nets == SiteParseCIDR(v.Network.IPv4, v.Network.IPv6)
             parsed == [g EXCEPT !.v4 = nets.v4, !.v6 = nets.v6]
         IN IF nets.err THEN [err |-> TRUE, g |-> parsed, localIPs |-> <<>>]
            ELSE [err |-> FALSE,
                  g |-> [parsed EXCEPT !.server = v.Annotation],
                  localIPs |-> IF v.Type = "virtual"
                               THEN locals \o <<nets.v4.IP, nets.v6.IP>>
                               ELSE locals]

NoLocals == [a \in Annotators |-> <<>>]
NoFlow == [SrcIP |-> BadText, DstIP |-> BadText]
NoDirs == [a \in Annotators |-> NoDirection]

\* main: host.Parse(*hostname), rtx.Must, h.String().
MainHostParse ==
    /\ tpc = "parse"
    /\ LET h == HostParse(hostname) IN
          IF h.ok
          THEN /\ mlabHostname' = HostString(h.name)
               /\ tpc' = "site"
          ELSE /\ tpc' = "fatal"
               /\ UNCHANGED mlabHostname
    /\ UNCHANGED <<hostname, inventory, initialLocal, mainLocal, loaded, annLocal,
                   flow, dirs>>
    /\ UNCHANGED nonStartup

\* main: site, localIPs := siteannotator.New(mainCtx, mlabHostname, js,
\* localIPs); New ends the process when load returns an error.
MainSiteNew ==
    /\ tpc = "site"
    /\ LET r == SiteLoad(inventory, mlabHostname, mainLocal, loaded) IN
          /\ loaded' = r.g
          /\ annLocal' = [annLocal EXCEPT !["site"] = r.localIPs]
          /\ IF r.err
             THEN /\ tpc' = "fatal"
                  /\ UNCHANGED mainLocal
             ELSE /\ tpc' = "geo"
                  /\ mainLocal' = r.localIPs
    /\ UNCHANGED <<hostname, mlabHostname, inventory, initialLocal, flow, dirs>>
    /\ UNCHANGED nonStartup

\* A main that gives the geo annotator the addresses of the interfaces only.
MainGeoNewInterfacesOnly ==
    /\ tpc = "geo"
    /\ \E ok \in BOOLEAN :
          IF ok
          THEN /\ annLocal' = [annLocal EXCEPT !["geo"] = initialLocal]
               /\ tpc' = "asn"
          ELSE /\ tpc' = "fatal"
               /\ UNCHANGED annLocal
    /\ UNCHANGED <<hostname, mlabHostname, inventory, initialLocal, mainLocal,
                   loaded, flow, dirs>>
    /\ UNCHANGED nonStartup

\* main: geo := geoannotator.New(mainCtx, p, localIPs); New ends the process
\* when the first load fails.
MainGeoNew ==
    /\ tpc = "geo"
    /\ \E ok \in BOOLEAN :
          IF ok
          THEN /\ annLocal' = [annLocal EXCEPT !["geo"] = mainLocal]
               /\ tpc' = "asn"
          ELSE /\ tpc' = "fatal"
               /\ UNCHANGED annLocal
    /\ UNCHANGED <<hostname, mlabHostname, inventory, initialLocal, mainLocal,
                   loaded, flow, dirs>>
    /\ UNCHANGED nonStartup

\* main: asn := asnannotator.New(mainCtx, p4, p6, asnames, localIPs).
MainAsnNew ==
    /\ tpc = "asn"
    /\ \E ok \in BOOLEAN :
          IF ok
          THEN /\ annLocal' = [annLocal EXCEPT !["asn"] = mainLocal]
               /\ tpc' = "ready"
          ELSE /\ tpc' = "fatal"
               /\ UNCHANGED annLocal
    /\ UNCHANGED <<hostname, mlabHostname, inventory, initialLocal, mainLocal,
                   loaded, flow, dirs>>
    /\ UNCHANGED nonStartup

\* The three Annotate methods, given the ID of one flow: each begins with
\* annotator.FindDirection(ID, localIPs) on the annotator's own localIPs.
AnnotateFlow ==
    /\ tpc = "ready"
    /\ \E id \in [SrcIP : EndpointTexts, DstIP : EndpointTexts] :
          /\ flow' = id
          /\ dirs' = [a \in Annotators |-> FindDirection(id, annLocal[a])]
    /\ tpc' = "classified"
    /\ UNCHANGED <<hostname, mlabHostname, inventory, initialLocal, mainLocal,
                   loaded, annLocal>>
    /\ UNCHANGED nonStartup

StartupIdle ==
    /\ hostname = "localhost"
    /\ mlabHostname = NoText
    /\ inventory = [k |-> "error"]
    /\ initialLocal = <<>>
    /\ mainLocal = <<>>
    /\ loaded = NotLoaded
    /\ annLocal = NoLocals
    /\ flow = NoFlow
    /\ dirs = NoDirs
    /\ tpc = "idle"

\* main with its flags parsed and the addresses of the interfaces read.
StartupInit ==
    /\ hostname \in HostnameFlags
    /\ mlabHostname = NoText
    /\ inventory \in Inventories
    /\ initialLocal \in InitialLocalIPs
    /\ mainLocal = initialLocal
    /\ loaded = NotLoaded
    /\ annLocal = NoLocals
    /\ flow = NoFlow
    /\ dirs = NoDirs
    /\ tpc = "parse"

-----------------------------------------------------------------------------
(* RouteViews systems: routeview.ParseSystems applied to the text of one    *)
(* netblock's systems.                                                       *)

\* The characters of the texts: digits, the two separators and a character
\* that is neither.
SystemChars == {"0", "1", ",", "_", "x"}

\* The digits of 1<<32, a number that does not fit 32 bits.
OverUint32 == <<"4", "2", "9", "4", "9", "6", "7", "2", "9", "6">>

\* Texts with a token of ten digits.
LongTexts ==
    {OverUint32,
     OverUint32 \o <<",", "7">>,
     <<"3", "_">> \o OverUint32 \o <<",", "7">>,
     <<"0">> \o OverUint32 \o <<",", "8", ",", "9">>}

SystemTexts == SeqsUpTo(SystemChars, MaxText) \cup LongTexts

SystemsIdle ==
    /\ sysText = <<>>
    /\ sysResult = <<>>
    /\ ypc = "idle"

SystemsInit ==
    /\ sysText \in SystemTexts
    /\ sysResult = <<>>
    /\ ypc = "text"

\* annotateIPHoldingLock: routeview.ParseSystems(ipnet.Systems)
ParseText ==
    /\ ypc = "text"
    /\ sysResult' = ParseSystems(sysText)
    /\ ypc' = "parsed"
    /\ UNCHANGED sysText
    /\ UNCHANGED nonSystems

-----------------------------------------------------------------------------
(* AS names: ipinfo.Parse applied to one file.                              *)

\* The characters of the ASN field of a row.
NameChars == {"A", "S", "1", "2"}

NameFields == SeqsUpTo(NameChars, MaxField)

\* A file with the header, one row with the given ASN field, and one row
\* for AS5.
NameFile(f) ==
    [csv |-> TRUE,
     rows |-> <<NamesHeader, <<f, "Name">>, << <<"A", "S", "5">>, "Test Number Five" >> >>]

NameFiles == {NameFile(f) : f \in NameFields} \cup CSVBlobs

NamesIdle ==
    /\ nameData = [csv |-> FALSE, rows |-> <<>>]
    /\ nameResult = [res |-> "none"]
    /\ npc = "idle"

NamesInit ==
    /\ nameData \in NameFiles
    /\ nameResult = [res |-> "none"]
    /\ npc = "data"

\* loadNames: ipinfo.Parse(data)
ParseNames ==
    /\ npc = "data"
    /\ nameResult' = Parse(nameData)
    /\ npc' = "parsed"
    /\ UNCHANGED nameData
    /\ UNCHANGED nonNames

-----------------------------------------------------------------------------

(* The provider of a dataset kept in Google Cloud Storage:                  *)
(* rawfile.gcsProvider.Get, and the object being replaced in the bucket.    *)

\* The bytes the object may hold, and nil.
ObjectData == {"v1", "v2", "v3"}
NilBytes == "nil"

\* storage.ObjectAttrs.MD5 of an object that holds the given bytes.
MD5(data) ==
    CASE data = "v1" -> "h1"
      [] data = "v2" -> "h2"
      [] data = "v3" -> "h3"
      [] OTHER -> NilBytes

Hashes == {MD5(data) : data \in ObjectData}

NothingGot == [data |-> NilBytes, err |-> "none"]

ProviderIdle ==
    /\ object = "v1"
    /\ md5 = NilBytes
    /\ cachedReader = NilBytes
    /\ oa = NilBytes
    /\ got = NothingGot
    /\ gpc = "idle"
    /\ gcsFilesLoaded = [h \in Hashes |-> "unset"]

\* FromURL has returned the provider; no Get has been called.
ProviderInit ==
    /\ object \in ObjectData
    /\ md5 = NilBytes
    /\ cachedReader = NilBytes
    /\ oa = NilBytes
    /\ got = NothingGot
    /\ gpc = "ready"
    /\ gcsFilesLoaded = [h \in Hashes |-> "unset"]

\* The object in the bucket is replaced by a new copy of the dataset.
Replace(data) ==
    /\ gpc \in {"ready", "read"}
    /\ data # object
    /\ object' = data
    /\ UNCHANGED <<md5, cachedReader, oa, got, gpc, gcsFilesLoaded>>
    /\ UNCHANGED nonProvider

\* gcsProvider.Get up to the decision to download: o.Attrs fails, or the
\* cached bytes are returned, or the object is to be read.
GetAttrs ==
    /\ gpc = "ready"
    /\ \/ /\ oa' = NilBytes
          /\ got' = [data |-> NilBytes, err |-> "attrs"]
          /\ gpc' = "ready"
       \/ /\ oa' = MD5(object)
          /\ IF cachedReader = NilBytes \/ md5 = NilBytes \/ md5 # MD5(object)
             THEN /\ got' = NothingGot
                  /\ gpc' = "read"
             ELSE /\ got' = [data |-> cachedReader, err |-> "nil"]
                  /\ gpc' = "ready"
    /\ UNCHANGED <<object, md5, cachedReader, gcsFilesLoaded>>
    /\ UNCHANGED nonProvider

\* gcsProvider.Get from o.NewReader on: the reader or the read fails, or
\* the bytes read and the MD5 that Attrs reported are cached.
GetRead ==
    /\ gpc = "read"
    /\ \/ /\ \E e \in {"newreader", "readall"} :
                got' = [data |-> NilBytes, err |-> e]
          /\ UNCHANGED <<md5, cachedReader, gcsFilesLoaded>>
       \/ /\ cachedReader' = object
          /\ md5' = oa
          /\ gcsFilesLoaded' = [h \in Hashes |->
                                   IF h = oa THEN 1
                                   ELSE IF h = md5 THEN 0
                                   ELSE gcsFilesLoaded[h]]
          /\ got' = [data |-> object, err |-> "nil"]
    /\ gpc' = "ready"
    /\ UNCHANGED <<object, oa>>
    /\ UNCHANGED nonProvider

-----------------------------------------------------------------------------

(* Specifications. *)

OpenAny == \E ts \in Timestamps, uuid \in UUIDs : Open(ts, uuid)

HandlerIdle ==
    /\ buffersize = 0
    /\ jobs = <<>>
    /\ wpc = "idle"
    /\ cur = NoJob
    /\ cancelled = FALSE
    /\ missedJobs = [pipefull |-> 0, writefail |-> 0]
    /\ annotationErrors = 0
    /\ annotated = NoneAnnotated
    /\ files = <<>>
    /\ events = <<>>
    /\ enq = <<>>
    /\ writeLog = <<>>
    /\ missedFor = [n \in 1..MaxEvents |-> 0]

Init == HandlerInit /\ SearchIdle /\ DirectionIdle /\ ReloadIdle /\ AnnotateIdle /\ MainIdle /\ SystemsIdle /\ StartupIdle /\ NamesIdle /\ ProviderIdle /\ ChannelOpen

Next ==
    \/ OpenAny
    \/ StartWorker
    \/ WorkerCheck
    \/ WorkerReceive
    \/ WorkerDone
    \/ WorkerProcess
    \/ Cancel

Spec == Init /\ [][Next]_vars

\* The Go scheduler runs the worker goroutine whenever it can take a step;
\* nothing obliges the event source to call Open or the process to be
\* cancelled.
FairSpec ==
    /\ Spec
    /\ WF_vars(StartWorker)
    /\ WF_vars(WorkerCheck)
    /\ WF_vars(WorkerReceive)
    /\ WF_vars(WorkerDone)
    /\ WF_vars(WorkerProcess)

InitSearch == SearchInit /\ HandlerIdle /\ DirectionIdle /\ ReloadIdle /\ AnnotateIdle /\ MainIdle /\ SystemsIdle /\ StartupIdle /\ NamesIdle /\ ProviderIdle /\ ChannelOpen

NextSearch ==
    \/ ParseFile
    \/ SearchAny

SpecSearch == InitSearch /\ [][NextSearch]_vars

OpenClosedAny == \E ts \in Timestamps, uuid \in UUIDs : OpenClosed(ts, uuid)

NextClosed ==
    \/ ~jobsClosed /\ OpenAny
    \/ OpenClosedAny
    \/ CloseJobs
    \/ StartWorker
    \/ WorkerCheck
    \/ WorkerReceive
    \/ WorkerReceiveClosed
    \/ WorkerDone
    \/ WorkerProcess
    \/ Cancel

SpecClosed == Init /\ [][NextClosed]_vars

InitProvider == ProviderInit /\ HandlerIdle /\ SearchIdle /\ DirectionIdle /\ ReloadIdle /\ AnnotateIdle /\ MainIdle /\ SystemsIdle /\ StartupIdle /\ NamesIdle /\ ChannelOpen /\ ChannelOpen

NextProvider ==
    \/ \E data \in ObjectData : Replace(data)
    \/ GetAttrs
    \/ GetRead

SpecProvider == InitProvider /\ [][NextProvider]_vars

NextSlice ==
    \/ ParseSlice
    \/ SearchSliceAny

SpecSlice == InitSearch /\ [][NextSlice]_vars

InitParser == ParserInit /\ HandlerIdle /\ DirectionIdle /\ ReloadIdle /\ AnnotateIdle /\ MainIdle /\ SystemsIdle /\ StartupIdle /\ NamesIdle /\ ProviderIdle /\ ChannelOpen

NextParser == ParseFile

SpecParser == InitParser /\ [][NextParser]_vars

InitDirection == DirectionInit /\ HandlerIdle /\ SearchIdle /\ ReloadIdle /\ AnnotateIdle /\ MainIdle /\ SystemsIdle /\ StartupIdle /\ NamesIdle /\ ProviderIdle /\ ChannelOpen

NextDirection == Classify

SpecDirection == InitDirection /\ [][NextDirection]_vars

InitReload == ReloadInit /\ HandlerIdle /\ SearchIdle /\ DirectionIdle /\ AnnotateIdle /\ MainIdle /\ SystemsIdle /\ StartupIdle /\ NamesIdle /\ ProviderIdle /\ ChannelOpen

NextReload ==
    \/ GeoNew
    \/ AsnNew
    \/ Tick
    \/ GeoReloadLoad
    \/ GeoLock
    \/ GeoLocked
    \/ GeoSet
    \/ GeoUnlock
    \/ AsnReloadLoad4
    \/ AsnReloadLoad6
    \/ AsnReloadLoadNames
    \/ AsnLock
    \/ AsnLocked
    \/ AsnSet4
    \/ AsnSet6
    \/ AsnSetNames
    \/ AsnUnlock
    \/ \E t \in Threads :
          \/ GeoRLock(t)
          \/ GeoCity(t)
          \/ AsnRLock(t)
          \/ AsnSearch4(t)
          \/ AsnSearch6(t)
          \/ AsnNames(t)
          \/ AsnRUnlock(t)

SpecReload == InitReload /\ [][NextReload]_vars

InitAnnotate == AnnotateInit /\ HandlerIdle /\ SearchIdle /\ MainIdle /\ SystemsIdle /\ StartupIdle /\ NamesIdle /\ ProviderIdle /\ ChannelOpen

NextAnnotate == GeoAnnotate \/ AsnAnnotate \/ SiteAnnotate

SpecAnnotate == InitAnnotate /\ [][NextAnnotate]_vars

InitServe == ServeInit /\ HandlerIdle /\ SearchIdle /\ DirectionIdle /\ MainIdle /\ SystemsIdle /\ StartupIdle /\ NamesIdle /\ ProviderIdle /\ ChannelOpen

NextServe == ServeHTTP

SpecServe == InitServe /\ [][NextServe]_vars

InitSystems == SystemsInit /\ HandlerIdle /\ SearchIdle /\ DirectionIdle /\ ReloadIdle /\ AnnotateIdle /\ MainIdle /\ StartupIdle /\ NamesIdle /\ ProviderIdle /\ ChannelOpen

NextSystems == ParseText

SpecSystems == InitSystems /\ [][NextSystems]_vars

InitNames == NamesInit /\ HandlerIdle /\ SearchIdle /\ DirectionIdle /\ ReloadIdle /\ AnnotateIdle /\ MainIdle /\ SystemsIdle /\ StartupIdle /\ ProviderIdle /\ ChannelOpen

NextNames == ParseNames

SpecNames == InitNames /\ [][NextNames]_vars

InitStartup == StartupInit /\ HandlerIdle /\ SearchIdle /\ DirectionIdle /\ ReloadIdle /\ AnnotateIdle /\ MainIdle /\ SystemsIdle /\ NamesIdle /\ ProviderIdle /\ ChannelOpen

NextStartup ==
    \/ MainHostParse
    \/ MainSiteNew
    \/ MainGeoNew
    \/ MainAsnNew
    \/ AnnotateFlow

SpecStartup == InitStartup /\ [][NextStartup]_vars

InitMain == MainInit /\ HandlerInit /\ SearchIdle /\ DirectionIdle /\ ReloadIdle /\ AnnotateIdle /\ SystemsIdle /\ StartupIdle /\ NamesIdle /\ ProviderIdle /\ ChannelOpen

NextMain ==
    \/ MainServeMetrics
    \/ MainGoReload
    \/ MainGoWorker
    \/ MainGoListener
    \/ MainGoRPC
    \/ MainRunning
    \/ MainWait
    \/ CloserRun
    \/ ReloaderNewTicker
    \/ TickerClose
    \/ ReloaderTick
    \/ ReloaderGeo
    \/ ReloaderAsn
    \/ ReloaderEnd
    \/ WorkerGo
    \/ WorkerCheck
    \/ WorkerDone
    \/ WorkerExit
    \/ ListenerReturn
    \/ RPCCloserRun
    \/ ServeReturn
    \/ Cancel

SpecMain == InitMain /\ [][NextMain]_vars

\* Every goroutine and main itself keep being scheduled, the calls they make
\* return, and the ticker honours its context; nothing obliges a tick to
\* arrive or the context to be cancelled.
FairSpecMain ==
    /\ SpecMain
    /\ WF_vars(MainServeMetrics)
    /\ WF_vars(MainGoReload)
    /\ WF_vars(MainGoWorker)
    /\ WF_vars(MainGoListener)
    /\ WF_vars(MainGoRPC)
    /\ WF_vars(MainRunning)
    /\ WF_vars(MainWait)
    /\ WF_vars(CloserRun)
    /\ WF_vars(ReloaderNewTicker)
    /\ WF_vars(TickerClose)
    /\ WF_vars(ReloaderGeo)
    /\ WF_vars(ReloaderAsn)
    /\ WF_vars(ReloaderEnd)
    /\ WF_vars(WorkerGo)
    /\ WF_vars(WorkerCheck)
    /\ WF_vars(WorkerDone)
    /\ WF_vars(WorkerExit)
    /\ WF_vars(ListenerReturn)
    /\ WF_vars(RPCCloserRun)
    /\ WF_vars(ServeReturn)

-----------------------------------------------------------------------------
(* Properties of the event handler. *)

Opened(n) == n <= Len(events)

InQueue(n) == \E i \in DOMAIN jobs : jobs[i].n = n

\* The path at which the file of event n is expected.
ExpectedPath(n) == <<FormatDate(events[n].timestamp), events[n].uuid>>

FileExists(n) == Opened(n) /\ ExpectedPath(n) \in DOMAIN files

Settled(n) == FileExists(n) \/ missedFor[n] = 1

\* C1 as stated: every event passed to Open eventually has its JSON file at
\* its expected path, or the missed-jobs counter has been incremented exactly
\* once for it.
C1_EveryEventSettles ==
    \A n \in 1..MaxEvents : Opened(n) ~> Settled(n)

\* C1 (amended): no event is counted as missed more than once, and every
\* event passed to Open eventually has its JSON file at its expected path, or
\* has been counted as missed exactly once, or is still in the queue when the
\* worker's context is cancelled.
C1_EventSettlesUnlessCancelled ==
    /\ [](\A n \in 1..MaxEvents : missedFor[n] <= 1)
    /\ \A n \in 1..MaxEvents :
          Opened(n) ~> (Settled(n) \/ (cancelled /\ InQueue(n)))

\* A worker has processed two events, writing the file of one and failing
\* to write the other, which was counted.
C1_Witness ==
    \E n, k \in 1..MaxEvents :
        /\ n # k
        /\ FileExists(n)
        /\ \E i \in DOMAIN writeLog : writeLog[i] = [n |-> n, ok |-> TRUE]
        /\ \E i \in DOMAIN writeLog : writeLog[i] = [n |-> k, ok |-> FALSE]
        /\ missedFor[k] = 1
        /\ missedJobs.writefail = 1

OpenStep == events' # events

NewJob == [n |-> Len(events'), timestamp |-> events'[Len(events')].timestamp,
           uuid |-> events'[Len(events')].uuid]

OpenNeverBlocks == Len(events) < MaxEvents => ENABLED OpenAny

QueueBounded == Len(jobs) <= buffersize

\* C2 as stated: Open never blocks; on a queue that holds eventbuffersize
\* jobs it leaves the queue unchanged and adds exactly one to
\* missed-jobs{pipefull}; otherwise it appends the job and changes no
\* counter; the queue never holds more than eventbuffersize jobs.
C2_OpenDropsWhenFull ==
    /\ [](OpenNeverBlocks /\ QueueBounded)
    /\ [][OpenStep =>
            IF Len(jobs) = buffersize
            THEN /\ jobs' = jobs
                 /\ missedJobs' = [missedJobs EXCEPT !.pipefull = @ + 1]
            ELSE /\ jobs' = Append(jobs, NewJob)
                 /\ missedJobs' = missedJobs]_vars

\* C2 (amended): as stated for every eventbuffersize of at least 1; with
\* eventbuffersize 0 (an unbuffered channel) Open on the always-full queue
\* either drops the event and adds one to missed-jobs{pipefull}, or hands
\* the job to a worker waiting in its receive and changes no counter.
C2_OpenDropsOrHandsOff ==
    /\ [](OpenNeverBlocks /\ QueueBounded)
    /\ [][OpenStep =>
            IF Len(jobs) = buffersize
            THEN /\ jobs' = jobs
                 /\ \/ /\ missedJobs' = [missedJobs EXCEPT !.pipefull = @ + 1]
                       /\ cur' = cur
                    \/ /\ buffersize = 0
                       /\ wpc = "select"
                       /\ cur' = NewJob
                       /\ missedJobs' = missedJobs
            ELSE /\ jobs' = Append(jobs, NewJob)
                 /\ missedJobs' = missedJobs]_vars

\* Open has dropped an event on a full queue of capacity 1 or more while no
\* worker was running.
C2_Witness ==
    /\ buffersize >= 1
    /\ Len(jobs) = buffersize
    /\ wpc = "notstarted"
    /\ missedJobs.pipefull >= 1

\* C8: the worker's writes happen in the order in which Open enqueued the
\* jobs: the sequence of events written is a prefix of the sequence of
\* events enqueued.
C8_WritesInEnqueueOrder ==
    /\ Len(writeLog) <= Len(enq)
    /\ \A i \in DOMAIN writeLog : writeLog[i].n = enq[i]

\* The worker has written two jobs, neither of them dropped by Open.
C8_Witness ==
    /\ buffersize >= 1
    /\ Len(writeLog) = 2
    /\ writeLog[1].n # writeLog[2].n
    /\ missedJobs.pipefull = 0

-----------------------------------------------------------------------------
(* Properties of the prefix index. *)

\* Whether the text denotes an address of the given IP version; an IPv4
\* address may be written dotted or in IPv4-mapped IPv6 form.
InFamily(s, fam) ==
    IF fam = 4 THEN s.form # "bad" /\ To4(ParseIP(s)) # NilIP
    ELSE s.form = "v6" /\ To4(ParseIP(s)) = NilIP

\* The address the text denotes, in the width of its IP version.
Denoted(s) == IF To4(ParseIP(s)) # NilIP THEN To4(ParseIP(s)) ELSE ParseIP(s)

\* The network covers the address: same width, same leading units.
Covers(e, ip) ==
    /\ Len(e.IP) = Len(ip)
    /\ \A i \in 1..e.ones : e.IP[i] = ip[i]

Matching(ix, ip) ==
    {e \in UNION {{ix[g][i] : i \in DOMAIN ix[g]} : g \in DOMAIN ix} : Covers(e, ip)}

\* C7: for an index built by ParseRouteView and an address of the index's
\* family (IPv4 also in IPv4-mapped form), Search returns an entry of the
\* longest prefix length among the indexed entries that cover the address,
\* and not-found only when no indexed entry covers it.
C7_SearchLongestPrefix ==
    (spc = "searched" /\ InFamily(query, family)) =>
        LET M == Matching(index, Denoted(query)) IN
        IF M = {} THEN ~result.found
        ELSE /\ result.found
             /\ result.net \in M
             /\ \A e \in M : e.ones <= result.net.ones

\* An IPv4 address in IPv4-mapped form was searched in an IPv4 index with a
\* NetIndex of two networks and two networks of different lengths that
\* cover the address.
C7_Witness ==
    /\ spc = "searched"
    /\ family = 4
    /\ query.form = "v6"
    /\ InFamily(query, family)
    /\ Len(index) >= 2
    /\ \E g \in DOMAIN index : Len(index[g]) >= 2
    /\ Cardinality(Matching(index, Denoted(query))) >= 2
    /\ \E e \in Matching(index, Denoted(query)) : e.ones < result.net.ones
    /\ result.found

-----------------------------------------------------------------------------
(* Properties of the direction classifier. *)

\* The endpoint text is the text of a member of the local-IP set.
IsLocal(text) == \E i \in DOMAIN localIPs : text = String(localIPs[i])

\* C9: when both the source and the destination address are members of the
\* local-IP set, FindDirection returns SrcIsServer, whatever the order of
\* the set.
C9_BothLocalIsSrcIsServer ==
    (dpc = "done" /\ IsLocal(ID.SrcIP) /\ IsLocal(ID.DstIP)) =>
        (direction.dir = SrcIsServer /\ ~direction.err)

\* C10: FindDirection returns SrcIsServer when only the source is local,
\* DstIsServer when only the destination is, Unknown with an error when
\* neither is; without an error it names exactly one endpoint as server.
C10_OneLocalEndpoint ==
    dpc = "done" =>
        /\ (IsLocal(ID.SrcIP) /\ ~IsLocal(ID.DstIP)) =>
              (direction.dir = SrcIsServer /\ ~direction.err)
        /\ (~IsLocal(ID.SrcIP) /\ IsLocal(ID.DstIP)) =>
              (direction.dir = DstIsServer /\ ~direction.err)
        /\ (~IsLocal(ID.SrcIP) /\ ~IsLocal(ID.DstIP)) =>
              (direction.dir = Unknown /\ direction.err)
        /\ ~direction.err => direction.dir \in {SrcIsServer, DstIsServer}
        /\ direction.err => direction.dir = Unknown

\* Only the destination is local, it is not the first member of the set,
\* and FindDirection has answered DstIsServer.
C10_Witness ==
    /\ dpc = "done"
    /\ Len(localIPs) >= 2
    /\ ~IsLocal(ID.SrcIP)
    /\ ID.DstIP # String(localIPs[1])
    /\ IsLocal(ID.DstIP)
    /\ direction = [dir |-> DstIsServer, err |-> FALSE]

-----------------------------------------------------------------------------
(* Properties of the hot-swappable datasets. *)

AsnDatasets == {"as4", "as6", "names"}

AsnLookupPositions == {"asn_search4", "asn_search6", "asn_names", "asn_runlock"}

LoadPositions == {"geo_load", "asn_load4", "asn_load6", "asn_loadnames"}

\* C3: every lookup that runs concurrently with Reload computes its result
\* from one snapshot: what an ASN lookup has read of the IPv4 index, the
\* IPv6 index and the AS names is what the annotator holds until the lookup
\* ends, and that is a triple some New or Reload installed as a whole; the
\* reader a geo lookup began with is the reader until the lookup ends.
C3_LookupSeesOneSnapshot ==
    \A t \in Threads :
        /\ lpc[t] \in AsnLookupPositions =>
              /\ Triple(asn4, asn6, asnames) \in installed
              /\ \A d \in AsnDatasets : seen[t][d] \in {0, Current[d].id}
        /\ lpc[t] = "geo_city" => seen[t].mm = maxmind.id

\* An ASN lookup has searched the IPv4 index and is about to read the AS
\* names while Reload, holding a new IPv4 index and new AS names, waits for
\* the write lock.
C3_Witness ==
    /\ rpc = "asn_locking"
    /\ newvals.as4.id # asn4.id
    /\ newvals.names.id # asnames.id
    /\ \E t \in Threads :
          /\ lpc[t] = "asn_names"
          /\ seen[t].as4 = asn4.id

\* C4: a failing Get, decompression or parse during Reload ends Reload with
\* the process running and the datasets of that annotator as they were
\* before the Reload.
C4_ReloadFailureIsHarmless ==
    /\ [][\A d \in Datasets :
            (outcome[d] # "failed" /\ outcome'[d] = "failed") =>
                /\ proc' = "running"
                /\ Current' = Current]_vars
    /\ [](/\ outcome.mm = "failed" => maxmind = before.mm
          /\ (\E d \in AsnDatasets : outcome[d] = "failed") =>
                \A d \in AsnDatasets : Current[d] = before[d])

\* C5: after a Get that returned the no-change sentinel the annotator holds
\* the identical object for that dataset, and that object is what every
\* lookup reads of that dataset.
C5_NoChangeKeepsSnapshot ==
    \A d \in Datasets :
        outcome[d] = "nochange" =>
            /\ Current[d] = before[d]
            /\ \A t \in Threads : seen[t][d] \in {0, before[d].id}

\* A Reload of the ASN annotator in which the IPv4 provider reported no
\* change and the AS-name provider handed over new data is over, and a
\* lookup has since read the same IPv4 index and the new AS names.
C5_Witness ==
    /\ rpc = "tick"
    /\ outcome.as4 = "nochange"
    /\ outcome.names = "data"
    /\ asn4 = before.as4
    /\ asnames # before.names
    /\ \E t \in Threads :
          /\ seen[t].as4 = asn4.id
          /\ seen[t].names = asnames.id

\* C6: while Reload is fetching or parsing neither lock is held or asked
\* for by it, so every lookup can take its next step; a write lock is held
\* or asked for only around the assignments.
C6_ReloadLoadsWithoutLock ==
    /\ (proc = "running" /\ rpc \in LoadPositions) =>
          /\ mut.writer = "none"
          /\ m.writer = "none"
          /\ \A t \in Threads :
                /\ lpc[t] = "idle" => ENABLED GeoRLock(t) /\ ENABLED AsnRLock(t)
                /\ lpc[t] = "geo_city" => ENABLED GeoCity(t)
                /\ lpc[t] = "asn_search4" => ENABLED AsnSearch4(t)
                /\ lpc[t] = "asn_search6" => ENABLED AsnSearch6(t)
                /\ lpc[t] = "asn_names" => ENABLED AsnNames(t)
                /\ lpc[t] = "asn_runlock" => ENABLED AsnRUnlock(t)
    /\ mut.writer # "none" => rpc \in {"geo_locking", "geo_set", "geo_unlock"}
    /\ m.writer # "none" =>
          rpc \in {"asn_locking", "asn_set4", "asn_set6", "asn_setnames", "asn_unlock"}

\* Reload of the ASN annotator is loading the AS names while one lookup is
\* inside the ASN annotator and another inside the geo annotator.
C6_Witness ==
    /\ proc = "running"
    /\ rpc = "asn_loadnames"
    /\ \E t, u \in Threads :
          /\ lpc[t] = "asn_search4"
          /\ lpc[u] = "geo_city"

\* C30: Reload of the ASN annotator is all-or-nothing. The IPv4 index, the
\* IPv6 index and the AS names of a running annotator change only while
\* Reload holds the write lock, after all three loads of that Reload ended
\* without a failure, and to the value that Reload loaded; when the write
\* lock is released all three are the values that Reload loaded; and in a
\* Reload one of whose loads failed all three are as they were when it began.
C30_AsnReloadAllOrNothing ==
    /\ [][\A d \in AsnDatasets :
            (proc = "running" /\ Current'[d] # Current[d]) =>
                /\ m.writer = "held"
                /\ m'.writer = "held"
                /\ \A e \in AsnDatasets : outcome[e] \in {"data", "nochange"}
                /\ Current'[d] = newvals[d]]_vars
    /\ [][(m.writer = "held" /\ m'.writer = "none") =>
            \A d \in AsnDatasets : Current[d] = newvals[d]]_vars
    /\ []((\E d \in AsnDatasets : outcome[d] = "failed") =>
            \A d \in AsnDatasets : Current[d] = before[d])

\* An earlier Reload replaced all three values at once; in the Reload that
\* has just ended a new IPv4 index was built and the load of the AS names
\* failed, and the annotator holds what it held when that Reload began.
C30_Witness ==
    /\ proc = "running"
    /\ rpc = "tick"
    /\ outcome.as4 = "data"
    /\ outcome.names = "failed"
    /\ \A d \in AsnDatasets : Current[d] = before[d]
    /\ \E t \in installed :
          /\ t.as4 # asn4.id
          /\ t.as6 # asn6.id
          /\ t.names # asnames.id

\* C26: once a Reload of the ASN annotator has ended with no failed load,
\* the IPv4 index of the annotator is the one built from what the IPv4
\* provider handed over last, also when that was during a Reload another
\* load of which failed.
C26_FetchedUpdateIsNotLost ==
    (/\ proc = "running"
     /\ rpc = "tick"
     /\ \A d \in AsnDatasets : outcome[d] \in {"data", "nochange"}
     /\ built4 # 0) => asn4.id = built4

-----------------------------------------------------------------------------
(* Properties of the annotators at work. *)

Called(a) == \E i \in DOMAIN acalls : acalls[i] = a

\* C11: for a flow with neither endpoint in the local-IP set, every call of
\* the geo, the ASN and the site annotator returns an error and leaves the
\* record, and what it points to, as it was before the call.
C11_UnknownDirectionLeavesRecord ==
    [][(acalls' # acalls /\ ~IsLocal(ID.SrcIP) /\ ~IsLocal(ID.DstIP)) =>
          /\ areturn'.a = acalls'[Len(acalls')]
          /\ areturn'.err \notin {"nil", "none"}
          /\ annotations' = annotations
          /\ heapNetwork' = heapNetwork]_vars

\* All three annotators have been called for a flow with neither endpoint
\* local, on a record that held annotations before; the last call returned
\* an error and the record still holds what it held.
C11_Witness ==
    /\ ~IsLocal(ID.SrcIP) /\ ~IsLocal(ID.DstIP)
    /\ localIPs # <<>>
    /\ Called("geo") /\ Called("asn") /\ Called("site")
    /\ areturn.err = ErrUnknownDirection
    /\ annotations = UsedAnnotations

Parseable(text) == ParseIP(text) # NilIP

Params == {request[i] : i \in DOMAIN request}

\* C12: a lookup of an address that no dataset entry covers gives a record
\* with Missing set and every other field zero: the Network that AnnotateIP
\* of the ASN annotator returns is never nil and is the Missing record when
\* neither index covers the address, and the Geolocation stored by the geo
\* annotator is the Missing record when the database has no record for it.
C12_UncoveredAddressIsMissing ==
    response.status = StatusOK =>
        \A k \in DOMAIN response.body :
            /\ response.body[k].Network # Nil
            /\ (Matching(asn4.val, Denoted(k)) = {} /\ Matching(asn6.val, Denoted(k)) = {}) =>
                  response.body[k].Network = [ZeroNetwork EXCEPT !.Missing = TRUE]
            /\ Denoted(k) \notin DOMAIN maxmind.val =>
                  response.body[k].Geo = [ZeroGeolocation EXCEPT !.Missing = TRUE]

\* A request named an address that the indexes and the database do not
\* cover and one that they cover; the answer holds the Missing records for
\* the first and an AS number and a city for the second.
C12_Witness ==
    /\ response.status = StatusOK
    /\ maxmind.val = AnnotateDB
    /\ \E k, c \in DOMAIN response.body :
          /\ Matching(asn4.val, Denoted(k)) = {}
          /\ Matching(asn6.val, Denoted(k)) = {}
          /\ Denoted(k) \notin DOMAIN maxmind.val
          /\ response.body[k].Network.Missing
          /\ response.body[k].Geo.Missing
          /\ ~response.body[c].Network.Missing
          /\ response.body[c].Network.ASNumber # 0
          /\ response.body[c].Geo.City # NoText

\* C19: the request is answered with 400 exactly when none of its ip
\* parameters parses (also when it has none); otherwise with 200 and an
\* object whose keys are exactly the parameters that parse.
C19_BadRequestIffNoIPParses ==
    response # NoResponse =>
        /\ response.status \in {StatusOK, StatusBadRequest}
        /\ response.status = StatusBadRequest <=> ~\E p \in Params : Parseable(p)
        /\ response.status = StatusOK =>
              DOMAIN response.body = {p \in Params : Parseable(p)}

\* A request with one parameter that parses and one that does not has been
\* answered with 200 and the one key.
C19_Witness ==
    /\ response.status = StatusOK
    /\ \E p \in Params : ~Parseable(p)
    /\ Cardinality(DOMAIN response.body) = 1

-----------------------------------------------------------------------------
(* Further properties of the event handler. *)

\* The date of the instant in UTC, as a day number.
UTCDate(ts) == ts.utc \div 24

Written(n) == \E i \in DOMAIN writeLog : writeLog[i] = [n |-> n, ok |-> TRUE]

\* C13: the file of every event is in the directory of the UTC date of the
\* event's timestamp, whatever time zone the timestamp carries.
C13_DirectoryIsUTCDate ==
    \A n \in 1..Len(events) :
        Written(n) => <<UTCDate(events[n].timestamp), events[n].uuid>> \in DOMAIN files

\* C14: every record the worker has written carries the UUID and the
\* timestamp passed to the Open call that created its job, and so never a
\* time read from the clock at write time.
C14_RecordCarriesEventValues ==
    \A p \in DOMAIN files :
        \E n \in 1..Len(events) :
            /\ Written(n)
            /\ p = ExpectedPath(n)
            /\ files[p].UUID = events[n].uuid
            /\ files[p].Timestamp = events[n].timestamp

\* The worker has written the records of two events with different
\* timestamps.
C14_Witness ==
    \E p, q \in DOMAIN files :
        /\ files[p].Timestamp # files[q].Timestamp
        /\ Len(writeLog) = 2

\* The step in which the worker runs the body of its loop for the job it
\* received.
ProcessStep == wpc = "process" /\ wpc' = "check"

\* The call of WriteFile the worker made last.
LastWrite == writeLog[Len(writeLog)]

\* C15: in the step that processes a job, whichever annotators fail, every
\* annotator of the handler is invoked, in order, WriteFile is called for the
\* job, the annotation-errors counter grows by the number of failing
\* annotators, and the missed-jobs counters change only when WriteFile itself
\* fails.
C15_AnnotatorErrorOnlyCounts ==
    [][ProcessStep =>
          /\ annotated'.n = cur.n
          /\ annotated'.invoked = AnnotatorOrder
          /\ annotationErrors' = annotationErrors + Cardinality(annotated'.failed)
          /\ Len(writeLog') = Len(writeLog) + 1
          /\ LastWrite'.n = cur.n
          /\ LastWrite'.ok => /\ missedJobs' = missedJobs
                              /\ FilePath(cur) \in DOMAIN files'
                              /\ files'[FilePath(cur)] = Contents(cur)]_vars

\* The first annotator failed for a job, the others were still invoked, and
\* the file of the job was written with no missed job counted.
C15_Witness ==
    /\ annotated.n > 0
    /\ AnnotatorOrder[1] \in annotated.failed
    /\ annotated.invoked = AnnotatorOrder
    /\ annotationErrors = Cardinality(annotated.failed)
    /\ Written(annotated.n)
    /\ missedJobs = [pipefull |-> 0, writefail |-> 0]

C17_WorkerReturnsAfterCancel ==
    /\ cancelled ~> (wpc = "returned")
    /\ [](wpc = "returned" => cancelled)

\* ProcessIncomingRequests has returned while a job was still in the queue.
C17_Witness ==
    /\ cancelled
    /\ wpc = "returned"
    /\ jobs # <<>>

\* C20: a file the worker has written exists, with the same contents, after
\* every later step: processing a later event never changes it.
C20_WrittenFileNeverChanges ==
    [][\A p \in DOMAIN files : p \in DOMAIN files' /\ files'[p] = files[p]]_vars

-----------------------------------------------------------------------------
(* Properties of main. *)

\* The goroutines main starts under the given flags.
Started ==
    {"closer", "reloader"}
        \cup (IF flags.eventsocket THEN {"worker", "listener"} ELSE {})
        \cup (IF flags.ipservice THEN {"serve", "rpccloser"} ELSE {})

AllFinished ==
    /\ \A g \in Started : gor[g] = "done"
    /\ \A g \in Goroutines \ Started : gor[g] = "none"
    /\ wg = 0
    /\ mpc = "returned"

\* C18: once the root context is cancelled, every goroutine main starts
\* finishes, the wait group reaches zero and main returns; and main never
\* returns while a goroutine it counted is still running.
C18_CancelStopsEverything ==
    /\ cancelled ~> AllFinished
    /\ [](wg = Cardinality({g \in Goroutines : gor[g] \notin {"none", "done"}}))
    /\ [](mpc = "returned" => AllFinished)

\* With both sockets configured, the six goroutines have finished and main
\* has returned.
C18_Witness ==
    /\ flags.eventsocket /\ flags.ipservice
    /\ AllFinished
    /\ Started = Goroutines
    /\ wpc = "returned"

-----------------------------------------------------------------------------
(* Properties of the site annotator. *)

\* The endpoint of the flow that FindDirection takes for the server.
ServerEndpoint ==
    IF FindDirection(ID, localIPs).dir = SrcIsServer THEN ID.SrcIP ELSE ID.DstIP

\* The configured network of the family of an endpoint text: the IPv4 one
\* for an address with a 4-byte form, the IPv6 one otherwise.
FamilyNet(text) ==
    IF To4(ParseIP(text)) # NilIP THEN site.v4 ELSE site.v6

SiteStep == acalls' = Append(acalls, "site")

\* C23: a call of the site annotator for a flow with a local endpoint
\* returns no error; when the site configures a network of the family of the
\* server endpoint, the Server annotations become those of the site, with
\* that network as Network.CIDR; when it configures none, Server is left as
\* it was.
C23_SiteAnnotatesConfiguredFamilyOnly ==
    [][(SiteStep /\ (IsLocal(ID.SrcIP) \/ IsLocal(ID.DstIP))) =>
          /\ areturn' = [a |-> "site", err |-> "nil"]
          /\ IF FamilyNet(ServerEndpoint).IP # NilIP
             THEN /\ annotations'.Server = site.server
                  /\ annotations'.Server.Network = ServerNetworkPtr
                  /\ heapNetwork'.CIDR = IPNetString(FamilyNet(ServerEndpoint))
             ELSE /\ annotations'.Server = annotations.Server
                  /\ heapNetwork' = heapNetwork
          /\ annotations'.Client = annotations.Client]_vars

\* The site annotator was called for a flow whose server endpoint is an
\* IPv4 address, on a site that configures only an IPv6 network: it
\* returned no error and the fresh record has an empty Server.
C23_Witness ==
    /\ Called("site")
    /\ areturn = [a |-> "site", err |-> "nil"]
    /\ To4(ParseIP(ServerEndpoint)) # NilIP
    /\ site.v4.IP = NilIP /\ site.v6.IP # NilIP
    /\ annotations.Server = ZeroAnnotations.Server

\* C27: no step of an annotator changes the server annotation the site
\* annotator stores, its Network included, so nothing a record shares with
\* it can change under the record.
C27_AnnotateLeavesResolverAlone ==
    [][site' = site /\ heapNetwork' = heapNetwork]_vars

-----------------------------------------------------------------------------
(* Properties of the reload loop of main. *)

ReloadedDatasets == {reloaded[i] : i \in DOMAIN reloaded}

\* C29: when the reload loop has done the work of a tick and goes back to
\* waiting for the next one, it has invoked the reload of the geo, the ASN
\* and the site annotator, in this order.
C29_TickReloadsEveryDataset ==
    [][(gor["reloader"] = "asn" /\ gor'["reloader"] = "range") =>
          /\ reloaded' = <<"geo", "asn", "site">>
          /\ ReloadedDatasets' = Annotators]_vars

-----------------------------------------------------------------------------
(* Properties of ParseSystems. *)

\* The pieces of cs between the occurrences of sep, by position: piece k
\* lies between the (k-1)-th and the k-th occurrence.
Pieces(cs, sep) ==
    LET marks == {0, Len(cs) + 1} \cup {i \in DOMAIN cs : cs[i] = sep}
        Mark(k) == CHOOSE b \in marks : Cardinality({c \in marks : c < b}) = k
    IN [k \in 1..(Cardinality(marks) - 1) |->
           SubSeq(cs, Mark(k - 1) + 1, Mark(k) - 1)]

\* The token is the decimal text of an unsigned 32-bit integer.
IsUint32(token) ==
    /\ token # <<>>
    /\ \A i \in DOMAIN token : token[i] \in Digits
    /\ ~Above(StripZeros(token), MaxUint32)

\* The ASNs a group of comma-separated tokens stands for.
GroupASNs(group) ==
    LET numbers == SelectSeq(Pieces(group, ","), IsUint32)
    IN [j \in 1..Len(numbers) |-> Decimal(numbers[j])]

\* A single ASN or an AS-set: comma-separated tokens, every one an ASN.
IsASNGroup(cs) ==
    \A j \in DOMAIN Pieces(cs, ",") : IsUint32(Pieces(cs, ",")[j])

\* An AS-set: two or more comma-separated ASNs of one origin.
IsASSet(cs) ==
    /\ Len(Pieces(cs, "_")) = 1
    /\ Len(Pieces(cs, ",")) >= 2
    /\ IsASNGroup(cs)

\* A Multi-Origin AS: two or more underscore-separated groups, each a single
\* ASN or an AS-set.
IsMOAS(cs) ==
    /\ Len(Pieces(cs, "_")) >= 2
    /\ \A k \in DOMAIN Pieces(cs, "_") : IsASNGroup(Pieces(cs, "_")[k])

\* C25: ParseSystems yields one System per underscore-separated group, in
\* order, each with the ASNs of its comma-separated tokens in order, the
\* tokens that are not unsigned 32-bit integers left out; a Multi-Origin
\* string yields at least two Systems and an AS-set string exactly one
\* System with at least two ASNs.
C25_ParseSystemsGroupsAndTokens ==
    ypc = "parsed" =>
        /\ sysResult = [k \in 1..Len(Pieces(sysText, "_")) |->
                           [ASNs |-> GroupASNs(Pieces(sysText, "_")[k])]]
        /\ IsMOAS(sysText) => Len(sysResult) >= 2
        /\ IsASSet(sysText) => Len(sysResult) = 1 /\ Len(sysResult[1].ASNs) >= 2

\* The text "x,1_" has been parsed: the first of its two Systems has lost
\* the token that is no number and kept the one after it, and the second,
\* of an empty group, has no ASN.
C25_Witness ==
    /\ ypc = "parsed"
    /\ sysText = <<"x", ",", "1", "_">>
    /\ sysResult = <<[ASNs |-> <<1>>], [ASNs |-> <<>>]>>

-----------------------------------------------------------------------------
(* Properties of the construction of the annotators. *)

\* main has the site annotator.
SiteLoaded == tpc \in {"geo", "asn", "ready", "classified"}

\* The entry of the inventory the site annotator was made from.
Entry == inventory.s[mlabHostname]

\* The network address a CIDR text stands for: the address with the bits
\* beyond the prefix length cleared; the nil address of the zero net.IPNet
\* when the text is empty.
NetworkAddress(text) ==
    IF text.empty THEN NilIP ELSE MaskIP(text.prefix.a, text.length)

Unconfigured(e) == e.Network.IPv4.empty /\ e.Network.IPv6.empty

C22_EmptyVirtualKeepsLocalIPs ==
    (SiteLoaded /\ Entry.Type = "virtual" /\ Unconfigured(Entry)) =>
        /\ mainLocal = initialLocal
        /\ Len(annLocal.site) = Len(initialLocal)

\* C24: the Site and the Machine of the site annotator's ServerAnnotations
\* are the site and the machine host.Parse found in the hostname.
C24_SiteAndMachineFromHostname ==
    SiteLoaded =>
        /\ loaded.server.Site = HostParse(hostname).name.Site
        /\ loaded.server.Machine = HostParse(hostname).name.Machine

\* C28: the three annotators are constructed with one local-IP set, the
\* one siteannotator.New returned, and FindDirection gives the three of
\* them the same answer for every flow.
C28_AnnotatorsClassifyAlike ==
    /\ tpc \in {"ready", "classified"} =>
          \A a \in Annotators : annLocal[a] = mainLocal
    /\ tpc = "classified" =>
          \A a \in Annotators : dirs[a] = FindDirection(flow, mainLocal)

\* On a virtual site a flow from the appended IPv4 address, which is not an
\* address of an interface, is taken by all three annotators to have the
\* server as its source.
C28_Witness ==
    /\ tpc = "classified"
    /\ Entry.Type = "virtual"
    /\ flow.SrcIP = String(NetworkAddress(Entry.Network.IPv4))
    /\ FindDirection(flow, initialLocal).err
    /\ \A a \in Annotators : dirs[a] = [dir |-> SrcIsServer, err |-> FALSE]

-----------------------------------------------------------------------------
(* Further properties of the hot-swappable datasets. *)

\* C31: once New has returned, the geo annotator has a reader and the ASN
\* annotator an IPv4 index, an IPv6 index and an AS-name map, each one built
\* by a load, whatever the Reloads since did; and what a lookup has read is
\* such an object.
C31_LookupsSeeBuiltSnapshots ==
    /\ proc = "running" =>
          \A d \in Datasets : Current[d] # NilObject /\ Current[d].id > 0
    /\ \A t \in Threads :
          /\ lpc[t] = "geo_city" => seen[t].mm > 0
          /\ lpc[t] \in {"asn_search6", "asn_names", "asn_runlock"} =>
                seen[t].as4 > 0
          /\ lpc[t] = "asn_runlock" => seen[t].as6 > 0 \/ seen[t].names > 0

\* Two Reloads have run; in the last one the geo load failed, the IPv4
\* provider reported no change, a new IPv6 index was built and the load of
\* the AS names failed; a lookup is inside the ASN annotator.
C31_Witness ==
    /\ proc = "running"
    /\ reloads = MaxReloads
    /\ rpc = "tick"
    /\ outcome = [mm |-> "failed", as4 |-> "nochange", as6 |-> "data",
                  names |-> "failed"]
    /\ \E t \in Threads : lpc[t] = "asn_names" /\ seen[t].as4 = asn4.id

-----------------------------------------------------------------------------
(* Further properties of the direction classifier. *)

\* The text net.IP.String gives the address that an endpoint text denotes.
Normalized(text) == String(ParseIP(text))

\* C32: the answer of FindDirection depends only on the addresses the two
\* endpoint texts denote: it is the answer for the normalized texts of the
\* same two addresses.
C32_DirectionOfNormalizedText ==
    dpc = "done" =>
        direction = FindDirection([SrcIP |-> Normalized(ID.SrcIP),
                                   DstIP |-> Normalized(ID.DstIP)], localIPs)

-----------------------------------------------------------------------------
(* Properties of the order of the annotators. *)

\* C33, as the code has it: for each job the worker invokes the geo, then
\* the ASN, then the site annotator, and calls WriteFile for that job in the
\* same pass of its loop, after all three.
C33_GeoAsnSiteThenWrite ==
    [][ProcessStep =>
          /\ annotated'.n = cur.n
          /\ annotated'.invoked = <<"geo", "asn", "site">>
          /\ Len(writeLog') = Len(writeLog) + 1
          /\ LastWrite'.n = annotated'.n]_vars

\* C33, as stated: for each job the worker invokes the ASN, then the geo,
\* then the site annotator, and then writes the file.
C33_AsnGeoSiteThenWrite ==
    [][ProcessStep =>
          /\ annotated'.n = cur.n
          /\ annotated'.invoked = <<"asn", "geo", "site">>
          /\ Len(writeLog') = Len(writeLog) + 1
          /\ LastWrite'.n = annotated'.n]_vars

\* The worker has processed its second job: none of the three annotators
\* failed for it and its file is the last one written.
C33_Witness ==
    /\ Len(writeLog) = 2
    /\ annotated.n = LastWrite.n
    /\ annotated.invoked = <<"geo", "asn", "site">>
    /\ annotated.failed = {}
    /\ LastWrite.ok

-----------------------------------------------------------------------------
(* Properties of the annotators taken together. *)

\* The record and the Network object its Server.Network points to.
Record == [a |-> annotations, h |-> heapNetwork]

\* The client endpoint and the server endpoint of the flow.
ClientOf(d) == IF d.dir = DstIsServer THEN ID.SrcIP ELSE ID.DstIP
ServerOf(d) == IF d.dir = DstIsServer THEN ID.DstIP ELSE ID.SrcIP

\* What Annotate of each annotator makes of a record.
Annotated(name, rec) ==
    LET d == FindDirection(ID, localIPs) IN
    IF d.err THEN rec
    ELSE CASE name = "geo" ->
                [rec EXCEPT !.a.Client.Geo =
                    GeoAnnotateHoldingLock(maxmind.val, ClientOf(d), rec.a.Client.Geo).geo]
           [] name = "asn" ->
                [rec EXCEPT !.a.Client.Network =
                    AsnAnnotateIPHoldingLock(asn4.val, asn6.val, asnames.val, ClientOf(d))]
           [] name = "site" ->
                IF SiteCase(ServerOf(d)) = "none" THEN rec
                ELSE [rec EXCEPT !.a.Server = site.server,
                                 !.h.CIDR = IPNetString(IF SiteCase(ServerOf(d)) = "v4"
                                                        THEN site.v4 ELSE site.v6)]

RECURSIVE AnnotatedInOrder(_, _)
AnnotatedInOrder(order, rec) ==
    IF order = <<>> THEN rec
    ELSE AnnotatedInOrder(Tail(order), Annotated(Head(order), rec))

\* The orders in which the three annotators can be registered.
Orders ==
    {o \in [1..3 -> Annotators] : \A i, j \in 1..3 : o[i] = o[j] => i = j}

\* C34: the geo annotator changes nothing but Client.Geo, the ASN annotator
\* nothing but Client.Network, the site annotator nothing but Server and the
\* Network it points to, and what each writes does not depend on what the
\* others wrote; so the three annotators make the same record of any record
\* in every order.
C34_AnnotatorsCommute ==
    /\ [][acalls' # acalls =>
            LET name == acalls'[Len(acalls')] IN
            /\ Record' = Annotated(name, Record)
            /\ name = "geo" =>
                  /\ annotations' = [annotations EXCEPT !.Client.Geo =
                                                           annotations'.Client.Geo]
                  /\ heapNetwork' = heapNetwork
            /\ name = "asn" =>
                  /\ annotations' = [annotations EXCEPT !.Client.Network =
                                                           annotations'.Client.Network]
                  /\ heapNetwork' = heapNetwork
            /\ name = "site" => annotations'.Client = annotations.Client]_vars
    /\ [](apc = "annotate" =>
            \A o \in Orders :
                AnnotatedInOrder(o, Record) = AnnotatedInOrder(AnnotatorOrder, Record))

\* The annotators were invoked in the order site, ASN, geo on a flow with
\* a local endpoint, and each has filled in its part of the record.
C34_Witness ==
    /\ acalls = <<"site", "asn", "geo">>
    /\ areturn = [a |-> "geo", err |-> "nil"]
    /\ annotations.Server = site.server
    /\ annotations.Client.Network # Nil
    /\ annotations.Client.Network.ASNumber # 0
    /\ annotations.Client.Geo # Nil
    /\ annotations.Client.Geo.City # NoText

-----------------------------------------------------------------------------
(* Further properties of the AS-name parser. *)

\* C38: ipinfo.Parse returns a map or an error for every input, also for
\* one with no rows and for a row whose ASN field has fewer than two
\* characters; so the load of the AS names in Reload always returns, with
\* the process running and the AS names of the annotator as they were.
C38_ParseNeverPanics ==
    [][(rpc = "asn_loadnames" /\ rpc' # rpc) =>
          /\ proc' = "running"
          /\ asnames' = asnames
          /\ outcome'.names = "failed" => rpc' = "tick"]_vars

\* Whether the field is the letters AS followed by a decimal number.
BeginsWithAS(f) == Len(f) >= 2 /\ f[1] = "A" /\ f[2] = "S"
IsDecimal(cs) == cs # <<>> /\ \A i \in DOMAIN cs : cs[i] \in Digits

\* C39: a row whose ASN field does not begin with AS adds no entry and does
\* not fail the parse, so that the map is that of the other rows; a row
\* AS<n>,<name> with a decimal n maps n to name.
C39_OnlyASRowsAddEntries ==
    (npc = "parsed" /\ \E f \in NameFields : nameData = NameFile(f)) =>
        LET f == nameData.rows[2][1]
            n == SubSeq(f, 3, Len(f))
        IN /\ ~BeginsWithAS(f) =>
                 /\ nameResult.res = "ok"
                 /\ nameResult.map = [k \in {5} |-> "Test Number Five"]
           /\ (BeginsWithAS(f) /\ IsDecimal(n)) =>
                 /\ nameResult.res = "ok"
                 /\ Decimal(n) \in DOMAIN nameResult.map
                 /\ nameResult.map[Decimal(n)] = "Name"

-----------------------------------------------------------------------------
(* Properties of the RouteViews parser. *)

\* The entries of an index, netblock after netblock.
RECURSIVE Flatten(_)
Flatten(ix) == IF ix = <<>> THEN <<>> ELSE Head(ix) \o Flatten(Tail(ix))

\* Whether the first three fields of a row make an entry, and the entry.
WellFormed(record) ==
    /\ Len(record) >= 3
    /\ record[2].int
    /\ ParseCIDR(record[1], record[2].v).ok
EntryOf(record) ==
    LET n == ParseCIDR(record[1], record[2].v)
    IN [IP |-> n.IP, ones |-> n.ones, Systems |-> record[3]]

\* How many of the rows satisfying P there are.
Indexable(rows, P(_)) == {i \in DOMAIN rows : P(rows[i])}

\* That the index has one entry for each of the rows numbered in good
\* and no other, that each of the other rows has incremented one of the
\* three counters of rejected rows, and each row in good the fourth.
IndexesExactly(good) ==
    LET entries == Flatten(index)
        bad == DOMAIN file \ good
    IN /\ Len(entries) = Cardinality(good)
       /\ \A i \in good :
             Cardinality({k \in DOMAIN entries : entries[k] = EntryOf(file[i])})
                = Cardinality({k \in good : EntryOf(file[k]) = EntryOf(file[i])})
       /\ routeViewRows["parsed"] = Cardinality(good)
       /\ routeViewRows["missing-fields"] + routeViewRows["corrupt-netblock"]
             + routeViewRows["corrupt-prefix"] = Cardinality(bad)

\* C40: ParseRouteView indexes exactly the rows with at least three fields
\* of which the second is an integer and the first two make a CIDR, one
\* entry per row; every other row is left out, increments one counter of
\* rejected rows, and the rows after it are parsed.
C40_IndexesWellFormedRows ==
    spc = "parsed" => IndexesExactly(Indexable(file, WellFormed))

\* C40 as stated: the rows indexed are those with three fields.
ThreeFields(record) == Len(record) = 3 /\ WellFormed(record)
C40_IndexesThreeFieldRows ==
    spc = "parsed" => IndexesExactly(Indexable(file, ThreeFields))

\* A file whose first row has no prefix length, whose second row has four
\* fields and whose third row is well formed has been parsed: the index has
\* the second and the third row.
C40_Witness ==
    /\ spc = "parsed"
    /\ Len(file) = 3
    /\ ~file[1][2].int
    /\ Len(file[2]) = 4
    /\ Len(file[3]) = 3
    /\ Len(Flatten(index)) = 2
    /\ routeViewRows["corrupt-netblock"] = 1

-----------------------------------------------------------------------------
(* Properties of the single sorted IPNetSlice. *)

\* C35: Search of the single sorted slice finds a network that contains the
\* address whenever a network kept in the slice contains it, and reports
\* not-found only when none does.
C35_SliceSearchFindsContaining ==
    spc = "searched" =>
        IF \E k \in DOMAIN index : Contains(index[k], Denoted(query))
        THEN result.found /\ Contains(result.net, Denoted(query))
        ELSE ~result.found

-----------------------------------------------------------------------------
(* Properties of the GCS provider. *)

\* C36: Get decides to download only when nothing is cached or the MD5 of
\* the object differs from the MD5 of the cached bytes; when the two are
\* equal it returns the cached bytes without reading the object; and a Get
\* that returns an error leaves the cached bytes and the cached MD5 as they
\* were.
C36_DownloadsOnlyWhenChanged ==
    [][/\ (gpc = "ready" /\ object' = object) =>
             /\ gpc' = "read" =>
                   cachedReader = NilBytes \/ MD5(object) # MD5(cachedReader)
             /\ (oa' # NilBytes /\ cachedReader # NilBytes
                    /\ MD5(object) = MD5(cachedReader)) =>
                   /\ got' = [data |-> cachedReader, err |-> "nil"]
                   /\ gpc' = "ready"
       /\ got'.err \notin {"nil", "none"} =>
             /\ md5' = md5
             /\ cachedReader' = cachedReader]_vars

-----------------------------------------------------------------------------
(* Properties of the worker on a closed jobs channel. *)

=============================================================================
